---- MODULE Spec2Model ----
(***************************************************************************)
(* Core::ThreadPool (Include/Core/ThreadPool.hpp, Source/Core/             *)
(* ThreadPool.cpp) and the physics stepper that uses it                    *)
(* (ParticleGalaxyMode::UpdatePhysics / UpdateParticlePhysics).            *)
(*                                                                         *)
(* Every access to tasks_, stopping_ and activeTasks_ happens inside a     *)
(* std::unique_lock on queueMutex_, and the only blocking call made while  *)
(* the lock is held is condition_variable::wait, which releases it.  Each  *)
(* critical section is therefore one atomic action; what runs outside the  *)
(* lock (task(), notify_one, notify_all, join, future::wait) is a step of  *)
(* its own.                                                                *)
(***************************************************************************)
EXTENDS Naturals, Integers, Sequences, FiniteSets, TLC

\* ---- bounds of the model ----
MaxThreads == 2
MaxTasks == 3
MaxElems == 2
MaxP == 3
MaxBodies == 2
MaxFrames == 2
MaxCap == 2
MaxDt == 2
MaxTrailFrames == 52
MaxGpu == 3
MaxLife == 3
SizeBits == 3

VARIABLES
  numThreads,   \* workers_.size()
  tasks,        \* tasks_ : FIFO queue of task ids
  stopping,     \* stopping_
  activeTasks,  \* activeTasks_
  wstate,       \* position of every worker thread in WorkerThread()
  wtask,        \* the task a worker moved out of the queue (0: none)
  wi,           \* loop index i of UpdateParticlePhysics in a worker
  fut,          \* shared state of the packaged_task / future of every task
  runs,         \* how many times the body of every task has been executed
  tinfo,        \* what every task was bound to at Submit
  seen,         \* Body Registry snapshots every task has read in this frame
  counter,      \* the shared atomic counter the plain tasks increment
  mpc,          \* position of the main (owning) thread
  idx,          \* loop index of the main thread
  futures,      \* local std::vector<std::future<void>> of the main thread
  apc,          \* position of a second submitting thread
  wfaRet,       \* what held at the moment WaitForAll last returned
  atStop,       \* the handles Submit had returned when stopping_ was set
  func,         \* the callable given to ParallelForEach: "valid" or "moved"
  fnRvalue,     \* the callable was given as an rvalue that a move empties
  pfeN,         \* container.size() of the last ParallelForEach call
  pfeDone,      \* the last ParallelForEach call has returned
  applied,      \* how many times func was applied to every element
  P,            \* particles.size()
  active,       \* particles[i].active
  writers,      \* the tasks that wrote particles[i] in this frame
  bodies,       \* massiveObjects_: the frame that last advanced every body (0: none)
  frame,        \* number of UpdatePhysics calls so far
  batchSize,    \* local batchSize of UpdatePhysics
  result,       \* the values stored in the shared states: pairs <<task, value>>
  got,          \* what future::get() returned: pairs <<handle, value>>
  pending,      \* what GetNumPendingTasks() last returned
  maxParticles, \* ParticleSystem::maxParticles_
  particles,    \* ParticleSystem::particles_, indexed from 0
  gravity,      \* ParticleSystem::gravity_
  damping,      \* ParticleSystem::damping_, in hundredths
  massiveObjects, \* ParticleGalaxyMode::massiveObjects_
  paused,       \* paused_
  showTrails,   \* showTrails_
  currentPreset, \* currentPreset_
  demoMode,     \* demoMode_
  timeDilation, \* timeDilation_, in thousandths
  steps,        \* number of Update calls so far
  last,         \* the last operation on the mode or its store, and the state it found
  gpuMaxParticles, \* GPUParticleSystem::maxParticles_
  gpuParticles,    \* GPUParticleSystem::particles_, indexed from 0
  activeParticles, \* GPUParticleSystem::activeParticles_
  gpuLast          \* the last operation on the GPU particle system, and the state it found

vars == <<numThreads, tasks, stopping, activeTasks, wstate, wtask, wi, fut,
          runs, tinfo, seen, counter, mpc, idx, futures, apc, wfaRet, atStop, func,
          fnRvalue, pfeN, pfeDone, applied, P, active, writers, bodies,
          frame, batchSize, result, got, pending, maxParticles, particles,
          gravity, damping, massiveObjects, paused, showTrails, currentPreset,
          demoMode, timeDilation, steps, last, gpuMaxParticles, gpuParticles,
          activeParticles, gpuLast>>

poolVars == <<numThreads, tasks, stopping, activeTasks, wstate, wtask, wi>>
taskVars == <<fut, runs, tinfo, seen>>
pfeVars == <<func, fnRvalue, pfeN, pfeDone, applied>>
stepVars == <<P, active, writers, bodies, frame, batchSize>>
getVars == <<result, got, pending>>
storeVars == <<maxParticles, particles, gravity, damping>>
modeVars == <<massiveObjects, paused, showTrails, currentPreset, demoMode,
              timeDilation, steps>>
galaxyVars == <<storeVars, modeVars, last>>
gpuVars == <<gpuMaxParticles, gpuParticles, activeParticles, gpuLast>>

Workers == 1..numThreads
TaskIds == 1..Len(fut)
Done == {"ready", "failed"}

\* ---- what a task is bound to ----
\* a plain task is the lambda [i] { return i * i; } of the tests, bound to the
\* number of the Submit call that takes it
PlainTask(c) ==
  [kind |-> "plain", by |-> c, arg |-> Len(fut) + 1, lo |-> 0, hi |-> 0,
   frame |-> 0, fn |-> "valid"]
ElemTask(e, f) ==
  [kind |-> "elem", by |-> "main", arg |-> 0, lo |-> e, hi |-> e, frame |-> 0,
   fn |-> f]
RangeTask(s, e, f) ==
  [kind |-> "range", by |-> "main", arg |-> 0, lo |-> s, hi |-> e, frame |-> f,
   fn |-> "valid"]

\* a task whose body calls WaitForAll() on the pool that runs it
WaiterTask(c) ==
  [kind |-> "waiter", by |-> c, arg |-> 0, lo |-> 0, hi |-> 0, frame |-> 0,
   fn |-> "valid"]

InQueue(t) == \E k \in 1..Len(tasks) : tasks[k] = t
Executing(t) == \E w \in Workers : wstate[w] = "running" /\ wtask[w] = t
Enqueued == {t \in TaskIds : fut[t] # "rejected"}

\* the last task thread c gave to Submit
LastOf(c) == {t \in TaskIds : tinfo[t].by = c /\ \A u \in TaskIds : tinfo[u].by = c => u <= t}

\* the tasks a Submit has enqueued without having returned the handle yet
InSubmit ==
  (IF apc = "notify" THEN LastOf("aux") ELSE {}) \cup
  (IF mpc \in {"notify", "pfe_notify", "s_notify"} THEN LastOf("main") ELSE {})

\* the tasks whose handle Submit has returned
Returned == Enqueued \ InSubmit

\* ---- condition variables ----
NotifyNobody(ws) == {ws}

\* condition_.notify_one(): one of the workers blocked in condition_.wait
\* is woken, if there is one
NotifyOne(ws) ==
  IF \E w \in Workers : ws[w] = "waiting"
    THEN {[ws EXCEPT ![w] = "check"] : w \in {v \in Workers : ws[v] = "waiting"}}
    ELSE {ws}

\* condition_.notify_all()
NotifyAll(ws) == [w \in DOMAIN ws |-> IF ws[w] = "waiting" THEN "check" ELSE ws[w]]

\* finished_.notify_all(): the only thread that waits on finished_ is the
\* main thread inside WaitForAll
NotifyFinished(pc) == IF pc = "wfa_wait" THEN "wfa_check" ELSE pc

\* finished_.notify_all() as the workers see it: a worker whose task is
\* blocked inside WaitForAll is woken too
WakeFinished(ws) == [w \in DOMAIN ws |-> IF ws[w] = "t_wait" THEN "t_check" ELSE ws[w]]

\* ---- ThreadPool::Submit ----
SubmitNoCheck(info) ==
  /\ tasks' = Append(tasks, Len(fut) + 1)
  /\ fut' = Append(fut, "pending")
  /\ runs' = Append(runs, 0)
  /\ tinfo' = Append(tinfo, info)
  /\ seen' = Append(seen, {})

\* the critical section of Submit: throws when stopping_, else enqueues
Submit(info) ==
  IF stopping
    THEN /\ tasks' = tasks
         /\ fut' = Append(fut, "rejected")
         /\ runs' = Append(runs, 0)
         /\ tinfo' = Append(tinfo, info)
         /\ seen' = Append(seen, {})
    ELSE /\ tasks' = Append(tasks, Len(fut) + 1)
         /\ fut' = Append(fut, "pending")
         /\ runs' = Append(runs, 0)
         /\ tinfo' = Append(tinfo, info)
         /\ seen' = Append(seen, {})

\* Submit left by the exception
Threw == fut'[Len(fut')] = "rejected"

\* ---- ThreadPool::WorkerThread ----
\* the predicate of condition_.wait
WakePred == stopping \/ tasks # <<>>

\* condition_.wait finds its predicate false and blocks
WorkerBlock(w) ==
  /\ wstate[w] = "check"
  /\ ~WakePred
  /\ wstate' = [wstate EXCEPT ![w] = "waiting"]
  /\ UNCHANGED <<numThreads, tasks, stopping, activeTasks, wtask, wi>>
  /\ UNCHANGED <<taskVars, counter, mpc, idx, futures, apc, wfaRet, atStop, pfeVars, stepVars>>
  /\ UNCHANGED <<getVars, galaxyVars>>
  /\ UNCHANGED gpuVars

\* a spurious wake-up of condition_.wait
WorkerSpurious(w) ==
  /\ wstate[w] = "waiting"
  /\ wstate' = [wstate EXCEPT ![w] = "check"]
  /\ UNCHANGED <<numThreads, tasks, stopping, activeTasks, wtask, wi>>
  /\ UNCHANGED <<taskVars, counter, mpc, idx, futures, apc, wfaRet, atStop, pfeVars, stepVars>>
  /\ UNCHANGED <<getVars, galaxyVars>>
  /\ UNCHANGED gpuVars

ExitWhenStopping == stopping

\* the condition under which the worker leaves its loop
ExitCond == stopping /\ tasks = <<>>

WorkerExit(w) ==
  /\ wstate[w] = "check"
  /\ WakePred
  /\ ExitCond
  /\ wstate' = [wstate EXCEPT ![w] = "exited"]
  /\ UNCHANGED <<numThreads, tasks, stopping, activeTasks, wtask, wi>>
  /\ UNCHANGED <<taskVars, counter, mpc, idx, futures, apc, wfaRet, atStop, pfeVars, stepVars>>
  /\ UNCHANGED <<getVars, galaxyVars>>
  /\ UNCHANGED gpuVars

WorkerTakeUncounted(w) ==
  /\ wstate[w] = "check"
  /\ WakePred
  /\ ~ExitCond
  /\ wtask' = [wtask EXCEPT ![w] = Head(tasks)]
  /\ tasks' = Tail(tasks)
  /\ activeTasks' = activeTasks
  /\ wstate' = [wstate EXCEPT ![w] = "running"]
  /\ wi' = [wi EXCEPT ![w] = tinfo[Head(tasks)].lo]
  /\ UNCHANGED <<numThreads, stopping>>
  /\ UNCHANGED <<taskVars, counter, mpc, idx, futures, apc, wfaRet, atStop, pfeVars, stepVars>>
  /\ UNCHANGED <<getVars, galaxyVars>>
  /\ UNCHANGED gpuVars

WorkerTakeBack(w) ==
  /\ wstate[w] = "check"
  /\ WakePred
  /\ ~ExitCond
  /\ wtask' = [wtask EXCEPT ![w] = tasks[Len(tasks)]]
  /\ tasks' = SubSeq(tasks, 1, Len(tasks) - 1)
  /\ activeTasks' = activeTasks + 1
  /\ wstate' = [wstate EXCEPT ![w] = "running"]
  /\ wi' = [wi EXCEPT ![w] = tinfo[tasks[Len(tasks)]].lo]
  /\ UNCHANGED <<numThreads, stopping>>
  /\ UNCHANGED <<taskVars, counter, mpc, idx, futures, apc, wfaRet, atStop, pfeVars, stepVars>>
  /\ UNCHANGED <<getVars, galaxyVars>>
  /\ UNCHANGED gpuVars

\* task = move(tasks_.front()); tasks_.pop(); ++activeTasks_
WorkerTake(w) ==
  /\ wstate[w] = "check"
  /\ WakePred
  /\ ~ExitCond
  /\ wtask' = [wtask EXCEPT ![w] = Head(tasks)]
  /\ tasks' = Tail(tasks)
  /\ activeTasks' = activeTasks + 1
  /\ wstate' = [wstate EXCEPT ![w] = "running"]
  /\ wi' = [wi EXCEPT ![w] = tinfo[Head(tasks)].lo]
  /\ UNCHANGED <<numThreads, stopping>>
  /\ UNCHANGED <<taskVars, counter, mpc, idx, futures, apc, wfaRet, atStop, pfeVars, stepVars>>
  /\ UNCHANGED <<getVars, galaxyVars>>
  /\ UNCHANGED gpuVars

\* the value the lambda of a plain task returns
Compute(i) == i * i

\* task() for a task that increments the shared counter and returns a value,
\* which the packaged_task stores in its shared state
RunPlain(w) ==
  /\ wstate[w] = "running"
  /\ tinfo[wtask[w]].kind = "plain"
  /\ counter' = counter + 1
  /\ result' = result \cup {<<wtask[w], Compute(tinfo[wtask[w]].arg)>>}
  /\ runs' = [runs EXCEPT ![wtask[w]] = @ + 1]
  /\ fut' = [fut EXCEPT ![wtask[w]] = "ready"]
  /\ wstate' = [wstate EXCEPT ![w] = "finishing"]
  /\ UNCHANGED <<numThreads, tasks, stopping, activeTasks, wtask, wi>>
  /\ UNCHANGED <<tinfo, seen, mpc, idx, futures, apc, wfaRet, atStop, pfeVars, stepVars>>
  /\ UNCHANGED <<got, pending, galaxyVars>>
  /\ UNCHANGED gpuVars

\* task() for a task of ParallelForEach: std::bind(func, std::ref(item))().
\* A callable that was moved from is in a valid but unspecified state: it
\* may still behave as func, or (an emptied std::function) throw
\* std::bad_function_call, which the packaged_task stores in the future.
RunElem(w) ==
  /\ wstate[w] = "running"
  /\ tinfo[wtask[w]].kind = "elem"
  /\ \/ /\ applied' = [applied EXCEPT ![tinfo[wtask[w]].lo] = @ + 1]
        /\ fut' = [fut EXCEPT ![wtask[w]] = "ready"]
     \/ /\ tinfo[wtask[w]].fn = "moved"
        /\ applied' = applied
        /\ fut' = [fut EXCEPT ![wtask[w]] = "failed"]
  /\ runs' = [runs EXCEPT ![wtask[w]] = @ + 1]
  /\ wstate' = [wstate EXCEPT ![w] = "finishing"]
  /\ UNCHANGED <<numThreads, tasks, stopping, activeTasks, wtask, wi>>
  /\ UNCHANGED <<tinfo, seen, counter, mpc, idx, futures, apc, wfaRet, atStop>>
  /\ UNCHANGED <<func, fnRvalue, pfeN, pfeDone, stepVars>>
  /\ UNCHANGED <<getVars, galaxyVars>>
  /\ UNCHANGED gpuVars

\* --activeTasks_; finished_.notify_all() when nothing is queued or active
WorkerFinish(w) ==
  /\ wstate[w] = "finishing"
  /\ activeTasks' = activeTasks - 1
  /\ mpc' = IF tasks = <<>> /\ activeTasks - 1 = 0 THEN NotifyFinished(mpc) ELSE mpc
  /\ wstate' = [(IF tasks = <<>> /\ activeTasks - 1 = 0 THEN WakeFinished(wstate) ELSE wstate)
                  EXCEPT ![w] = "check"]
  /\ wtask' = [wtask EXCEPT ![w] = 0]
  /\ UNCHANGED <<numThreads, tasks, stopping, wi>>
  /\ UNCHANGED <<taskVars, counter, idx, futures, apc, wfaRet, atStop, pfeVars, stepVars>>
  /\ UNCHANGED <<getVars, galaxyVars>>
  /\ UNCHANGED gpuVars

\* ---- the main thread as a client of the pool ----
\* pool.Submit(task) by the main thread
MainSubmit ==
  /\ mpc = "idle"
  /\ Len(fut) < MaxTasks
  /\ Submit(PlainTask("main"))
  /\ mpc' = IF Threw THEN "idle" ELSE "notify"
  /\ UNCHANGED <<numThreads, stopping, activeTasks, wstate, wtask, wi>>
  /\ UNCHANGED <<counter, idx, futures, apc, wfaRet, atStop, pfeVars, stepVars>>
  /\ UNCHANGED <<getVars, galaxyVars>>
  /\ UNCHANGED gpuVars

\* condition_.notify_one() at the end of Submit
MainNotify ==
  /\ mpc = "notify"
  /\ wstate' \in NotifyOne(wstate)
  /\ mpc' = "idle"
  /\ UNCHANGED <<numThreads, tasks, stopping, activeTasks, wtask, wi>>
  /\ UNCHANGED <<taskVars, counter, idx, futures, apc, wfaRet, atStop, pfeVars, stepVars>>
  /\ UNCHANGED <<getVars, galaxyVars>>
  /\ UNCHANGED gpuVars

\* ---- a second thread that submits ----
AuxSubmit ==
  /\ apc = "idle"
  /\ mpc # "destroyed"
  /\ Len(fut) < MaxTasks
  /\ Submit(PlainTask("aux"))
  /\ apc' = IF Threw THEN "idle" ELSE "notify"
  /\ UNCHANGED <<numThreads, stopping, activeTasks, wstate, wtask, wi>>
  /\ UNCHANGED <<counter, mpc, idx, futures, wfaRet, atStop, pfeVars, stepVars>>
  /\ UNCHANGED <<getVars, galaxyVars>>
  /\ UNCHANGED gpuVars

AuxNotify ==
  /\ apc = "notify"
  /\ wstate' \in NotifyOne(wstate)
  /\ apc' = "idle"
  /\ UNCHANGED <<numThreads, tasks, stopping, activeTasks, wtask, wi>>
  /\ UNCHANGED <<taskVars, counter, mpc, idx, futures, wfaRet, atStop, pfeVars, stepVars>>
  /\ UNCHANGED <<getVars, galaxyVars>>
  /\ UNCHANGED gpuVars

\* ---- ThreadPool::WaitForAll ----
WaitPredNoActive == tasks = <<>>

WaitPredNoQueue == activeTasks = 0

\* the predicate of finished_.wait
WaitPred == tasks = <<>> /\ activeTasks = 0

NoRet == [valid |-> FALSE, q |-> 0, act |-> 0, busy |-> {}, cnt |-> 0,
          plain |-> 0, runs |-> <<>>, before |-> {}, open |-> {}]

\* the main thread calls WaitForAll and takes the lock
WaitForAllCall ==
  /\ mpc = "idle"
  /\ mpc' = "wfa_check"
  /\ wfaRet' = [NoRet EXCEPT !.before = Enqueued]
  /\ UNCHANGED <<poolVars, taskVars, counter, idx, futures, apc, pfeVars, stepVars>>
  /\ UNCHANGED atStop
  /\ UNCHANGED <<getVars, galaxyVars>>
  /\ UNCHANGED gpuVars

\* finished_.wait finds its predicate false and blocks
WaitForAllBlock ==
  /\ mpc = "wfa_check"
  /\ ~WaitPred
  /\ mpc' = "wfa_wait"
  /\ UNCHANGED <<poolVars, taskVars, counter, idx, futures, apc, wfaRet, atStop, pfeVars, stepVars>>
  /\ UNCHANGED <<getVars, galaxyVars>>
  /\ UNCHANGED gpuVars

\* a spurious wake-up of finished_.wait
WaitForAllSpurious ==
  /\ mpc = "wfa_wait"
  /\ mpc' = "wfa_check"
  /\ UNCHANGED <<poolVars, taskVars, counter, idx, futures, apc, wfaRet, atStop, pfeVars, stepVars>>
  /\ UNCHANGED <<getVars, galaxyVars>>
  /\ UNCHANGED gpuVars

\* finished_.wait finds its predicate true: WaitForAll returns
WaitForAllReturn ==
  /\ mpc = "wfa_check"
  /\ WaitPred
  /\ mpc' = "idle"
  /\ wfaRet' = [valid |-> TRUE, q |-> Len(tasks), act |-> activeTasks,
                busy |-> {w \in Workers : wstate[w] = "running"},
                cnt |-> counter,
                plain |-> Cardinality({t \in Enqueued : tinfo[t].kind = "plain"}),
                runs |-> [t \in Enqueued |-> runs[t]],
                before |-> wfaRet.before,
                open |-> {t \in wfaRet.before : fut[t] \notin Done}]
  /\ UNCHANGED <<poolVars, taskVars, counter, idx, futures, apc, pfeVars, stepVars>>
  /\ UNCHANGED atStop
  /\ UNCHANGED <<getVars, galaxyVars>>
  /\ UNCHANGED gpuVars

\* ---- ThreadPool::ParallelForEach ----
\* the call: futures.reserve(container.size())
PfeCall ==
  /\ mpc = "idle"
  /\ \E n \in 0..MaxElems, rv \in BOOLEAN :
       /\ Len(fut) + n <= MaxTasks
       /\ pfeN' = n
       /\ fnRvalue' = rv
       /\ applied' = [e \in 1..n |-> 0]
       /\ mpc' = IF n = 0 THEN "pfe_wait" ELSE "pfe_submit"
  /\ func' = "valid"
  /\ pfeDone' = FALSE
  /\ futures' = <<>>
  /\ idx' = 1
  /\ UNCHANGED <<poolVars, taskVars, counter, apc, wfaRet, atStop, stepVars>>
  /\ UNCHANGED <<getVars, galaxyVars>>
  /\ UNCHANGED gpuVars

\* futures.push_back(Submit(std::forward<F>(func), std::ref(item))): the
\* callable is forwarded in every iteration, so an rvalue is moved into the
\* std::bind of the first task and every later task binds what is left
PfeSubmit ==
  /\ mpc = "pfe_submit"
  /\ Submit(ElemTask(idx, func))
  /\ func' = IF fnRvalue THEN "moved" ELSE func
  /\ futures' = IF Threw THEN futures ELSE Append(futures, Len(fut) + 1)
  /\ mpc' = IF Threw THEN "idle" ELSE "pfe_notify"
  /\ UNCHANGED <<numThreads, stopping, activeTasks, wstate, wtask, wi>>
  /\ UNCHANGED <<counter, idx, apc, wfaRet, atStop, fnRvalue, pfeN, pfeDone, applied, stepVars>>
  /\ UNCHANGED <<getVars, galaxyVars>>
  /\ UNCHANGED gpuVars

\* condition_.notify_one() of that Submit, and the next iteration
PfeNotify ==
  /\ mpc = "pfe_notify"
  /\ wstate' \in NotifyOne(wstate)
  /\ idx' = IF idx = pfeN THEN 1 ELSE idx + 1
  /\ mpc' = IF idx = pfeN THEN "pfe_wait" ELSE "pfe_submit"
  /\ UNCHANGED <<numThreads, tasks, stopping, activeTasks, wtask, wi>>
  /\ UNCHANGED <<taskVars, counter, futures, apc, wfaRet, atStop, pfeVars, stepVars>>
  /\ UNCHANGED <<getVars, galaxyVars>>
  /\ UNCHANGED gpuVars

\* future.wait() on the next handle
PfeWait ==
  /\ mpc = "pfe_wait"
  /\ idx <= Len(futures)
  /\ fut[futures[idx]] \in Done
  /\ idx' = idx + 1
  /\ UNCHANGED <<poolVars, taskVars, counter, mpc, futures, apc, wfaRet, atStop, pfeVars, stepVars>>
  /\ UNCHANGED <<getVars, galaxyVars>>
  /\ UNCHANGED gpuVars

\* the second loop is over: ParallelForEach returns
PfeReturn ==
  /\ mpc = "pfe_wait"
  /\ idx > Len(futures)
  /\ mpc' = "idle"
  /\ pfeDone' = TRUE
  /\ idx' = 0
  /\ futures' = <<>>
  /\ UNCHANGED <<poolVars, taskVars, counter, apc, wfaRet, atStop>>
  /\ UNCHANGED <<func, fnRvalue, pfeN, applied, stepVars>>
  /\ UNCHANGED <<getVars, galaxyVars>>
  /\ UNCHANGED gpuVars

\* ---- ThreadPool::~ThreadPool ----
NoStop == [handles |-> {}, open |-> {}]

\* stopping_ = true under the lock
DtorLock ==
  /\ mpc = "idle"
  /\ stopping' = TRUE
  /\ atStop' = [handles |-> Returned, open |-> {t \in Returned : fut[t] \notin Done}]
  /\ mpc' = "dtor_notify"
  /\ UNCHANGED <<numThreads, tasks, activeTasks, wstate, wtask, wi>>
  /\ UNCHANGED <<taskVars, counter, idx, futures, apc, wfaRet, pfeVars, stepVars>>
  /\ UNCHANGED <<getVars, galaxyVars>>
  /\ UNCHANGED gpuVars

\* condition_.notify_all()
DtorNotify ==
  /\ mpc = "dtor_notify"
  /\ wstate' = NotifyAll(wstate)
  /\ mpc' = "dtor_join"
  /\ idx' = 1
  /\ UNCHANGED <<numThreads, tasks, stopping, activeTasks, wtask, wi>>
  /\ UNCHANGED <<taskVars, counter, futures, apc, wfaRet, atStop, pfeVars, stepVars>>
  /\ UNCHANGED <<getVars, galaxyVars>>
  /\ UNCHANGED gpuVars

\* worker.join() on the next worker
DtorJoin ==
  /\ mpc = "dtor_join"
  /\ idx <= numThreads
  /\ wstate[idx] = "exited"
  /\ idx' = idx + 1
  /\ UNCHANGED <<poolVars, taskVars, counter, mpc, futures, apc, wfaRet, atStop, pfeVars, stepVars>>
  /\ UNCHANGED <<getVars, galaxyVars>>
  /\ UNCHANGED gpuVars

\* every worker is joined: the destructor returns
DtorReturn ==
  /\ mpc = "dtor_join"
  /\ idx > numThreads
  /\ mpc' = "destroyed"
  /\ UNCHANGED <<poolVars, taskVars, counter, idx, futures, apc, wfaRet, atStop, pfeVars, stepVars>>
  /\ UNCHANGED <<getVars, galaxyVars>>
  /\ UNCHANGED gpuVars

\* no call of GetNumPendingTasks has returned yet
NoPending == <<>>

\* ---- the pool and its clients ----
\* ThreadPool::ThreadPool(numThreads): the workers are started
InitCommon ==
  /\ numThreads \in 0..MaxThreads
  /\ tasks = <<>>
  /\ stopping = FALSE
  /\ activeTasks = 0
  /\ wstate = [w \in 1..numThreads |-> "check"]
  /\ wtask = [w \in 1..numThreads |-> 0]
  /\ wi = [w \in 1..numThreads |-> 0]
  /\ fut = <<>>
  /\ runs = <<>>
  /\ tinfo = <<>>
  /\ seen = <<>>
  /\ counter = 0
  /\ idx = 0
  /\ futures = <<>>
  /\ apc = "idle"
  /\ wfaRet = NoRet
  /\ atStop = NoStop
  /\ func = "valid"
  /\ fnRvalue = FALSE
  /\ pfeN = 0
  /\ pfeDone = FALSE
  /\ applied = <<>>
  /\ frame = 0
  /\ batchSize = 0
  /\ result = {}
  /\ got = {}
  /\ pending = NoPending

\* no GPU particle system
NoGpu ==
  /\ gpuMaxParticles = 0
  /\ gpuParticles = <<>>
  /\ activeParticles = 0
  /\ gpuLast = [op |-> "none"]

\* no particle store and no mode: the pool alone
NoGalaxy ==
  /\ maxParticles = 0
  /\ particles = <<>>
  /\ gravity = 0
  /\ damping = 99
  /\ massiveObjects = <<>>
  /\ paused = FALSE
  /\ showTrails = TRUE
  /\ currentPreset = 0
  /\ demoMode = FALSE
  /\ timeDilation = 1000
  /\ steps = 0
  /\ last = [op |-> "none"]

Init ==
  /\ InitCommon
  /\ NoGpu
  /\ NoGalaxy
  /\ mpc = "idle"
  /\ P = 0
  /\ active = <<>>
  /\ writers = <<>>
  /\ bodies = <<>>

Next ==
  \/ \E w \in Workers : WorkerBlock(w)
  \/ \E w \in Workers : WorkerSpurious(w)
  \/ \E w \in Workers : WorkerExit(w)
  \/ \E w \in Workers : WorkerTake(w)
  \/ \E w \in Workers : RunPlain(w)
  \/ \E w \in Workers : WorkerFinish(w)
  \/ MainSubmit
  \/ MainNotify
  \/ AuxSubmit
  \/ AuxNotify
  \/ WaitForAllCall
  \/ WaitForAllBlock
  \/ WaitForAllSpurious
  \/ WaitForAllReturn
  \/ DtorLock
  \/ DtorNotify
  \/ DtorJoin
  \/ DtorReturn

Spec == Init /\ [][Next]_vars

\* ---- the pool under ParallelForEach calls of its owner ----
NextPfe ==
  \/ \E w \in Workers : WorkerBlock(w)
  \/ \E w \in Workers : WorkerSpurious(w)
  \/ \E w \in Workers : WorkerTake(w)
  \/ \E w \in Workers : RunElem(w)
  \/ \E w \in Workers : WorkerFinish(w)
  \/ PfeCall
  \/ PfeSubmit
  \/ PfeNotify
  \/ PfeWait
  \/ PfeReturn

SpecPfe == Init /\ [][NextPfe]_vars

\* ---- std::future<T>::get() on a handle Submit returned ----
\* the value in the shared state of handle h (-1: none has been stored)
Stored(h) == IF \E r \in result : r[1] = h THEN (CHOOSE r \in result : r[1] = h)[2] ELSE -1

GetNoWait(h) == TRUE

\* get() blocks until the shared state of h is ready
GetReady(h) == fut[h] \in Done

\* the main thread retrieves one of the handles it holds; a future can be
\* retrieved once
MainGet ==
  /\ mpc = "idle"
  /\ \E h \in Returned :
       /\ \A g \in got : g[1] # h
       /\ GetReady(h)
       /\ got' = got \cup {<<h, Stored(h)>>}
  /\ UNCHANGED <<poolVars, taskVars, counter, mpc, idx, futures, apc, wfaRet, atStop>>
  /\ UNCHANGED <<pfeVars, stepVars, result, pending, galaxyVars>>
  /\ UNCHANGED gpuVars

NextGet ==
  \/ \E w \in Workers : WorkerBlock(w)
  \/ \E w \in Workers : WorkerSpurious(w)
  \/ \E w \in Workers : WorkerTake(w)
  \/ \E w \in Workers : RunPlain(w)
  \/ \E w \in Workers : WorkerFinish(w)
  \/ MainSubmit
  \/ MainNotify
  \/ AuxSubmit
  \/ AuxNotify
  \/ MainGet

SpecGet == Init /\ [][NextGet]_vars

\* ---- WaitForAll called by a task of the pool ----
\* pool.Submit of a task that calls pool.WaitForAll()
MainSubmitWaiter ==
  /\ mpc = "idle"
  /\ Len(fut) < MaxTasks
  /\ Submit(WaiterTask("main"))
  /\ mpc' = IF Threw THEN "idle" ELSE "notify"
  /\ UNCHANGED <<numThreads, stopping, activeTasks, wstate, wtask, wi>>
  /\ UNCHANGED <<counter, idx, futures, apc, wfaRet, atStop, pfeVars, stepVars>>
  /\ UNCHANGED <<getVars, galaxyVars>>
  /\ UNCHANGED gpuVars

\* task() reaches the call: WaitForAll takes the lock
TaskWaitForAllCall(w) ==
  /\ wstate[w] = "running"
  /\ tinfo[wtask[w]].kind = "waiter"
  /\ wstate' = [wstate EXCEPT ![w] = "t_check"]
  /\ UNCHANGED <<numThreads, tasks, stopping, activeTasks, wtask, wi>>
  /\ UNCHANGED <<taskVars, counter, mpc, idx, futures, apc, wfaRet, atStop, pfeVars, stepVars>>
  /\ UNCHANGED <<getVars, galaxyVars>>
  /\ UNCHANGED gpuVars

\* finished_.wait inside the task evaluates its predicate: it blocks, or
\* WaitForAll returns and the task with it
TaskWaitForAllCheck(w) ==
  /\ wstate[w] = "t_check"
  /\ IF WaitPred
       THEN /\ wstate' = [wstate EXCEPT ![w] = "finishing"]
            /\ runs' = [runs EXCEPT ![wtask[w]] = @ + 1]
            /\ fut' = [fut EXCEPT ![wtask[w]] = "ready"]
       ELSE /\ wstate' = [wstate EXCEPT ![w] = "t_wait"]
            /\ UNCHANGED <<runs, fut>>
  /\ UNCHANGED <<numThreads, tasks, stopping, activeTasks, wtask, wi>>
  /\ UNCHANGED <<tinfo, seen, counter, mpc, idx, futures, apc, wfaRet, atStop, pfeVars, stepVars>>
  /\ UNCHANGED <<getVars, galaxyVars>>
  /\ UNCHANGED gpuVars

\* a spurious wake-up of finished_.wait inside the task
TaskWaitForAllSpurious(w) ==
  /\ wstate[w] = "t_wait"
  /\ wstate' = [wstate EXCEPT ![w] = "t_check"]
  /\ UNCHANGED <<numThreads, tasks, stopping, activeTasks, wtask, wi>>
  /\ UNCHANGED <<taskVars, counter, mpc, idx, futures, apc, wfaRet, atStop, pfeVars, stepVars>>
  /\ UNCHANGED <<getVars, galaxyVars>>
  /\ UNCHANGED gpuVars

NextNested ==
  \/ \E w \in Workers : WorkerBlock(w)
  \/ \E w \in Workers : WorkerSpurious(w)
  \/ \E w \in Workers : WorkerTake(w)
  \/ \E w \in Workers : RunPlain(w)
  \/ \E w \in Workers : TaskWaitForAllCall(w)
  \/ \E w \in Workers : TaskWaitForAllCheck(w)
  \/ \E w \in Workers : TaskWaitForAllSpurious(w)
  \/ \E w \in Workers : WorkerFinish(w)
  \/ MainSubmit
  \/ MainSubmitWaiter
  \/ MainNotify
  \/ WaitForAllCall
  \/ WaitForAllBlock
  \/ WaitForAllSpurious
  \/ WaitForAllReturn

SpecNested == Init /\ [][NextNested]_vars

\* ---- the pool under fair scheduling ----
\* a pool with a worker, and a main thread that submits and waits
InitLive ==
  /\ Init
  /\ numThreads >= 1

NextLive ==
  \/ \E w \in Workers : WorkerBlock(w)
  \/ \E w \in Workers : WorkerSpurious(w)
  \/ \E w \in Workers : WorkerTake(w)
  \/ \E w \in Workers : RunPlain(w)
  \/ \E w \in Workers : WorkerFinish(w)
  \/ MainSubmit
  \/ MainNotify
  \/ AuxSubmit
  \/ AuxNotify
  \/ WaitForAllCall
  \/ WaitForAllBlock
  \/ WaitForAllSpurious
  \/ WaitForAllReturn

\* a thread that is not blocked takes its next step: a worker evaluates the
\* predicate of its wait, runs the task it took (which terminates) and
\* finishes it; a thread inside Submit reaches its notify_one; the thread
\* inside WaitForAll evaluates the predicate of its wait.  Nothing is assumed
\* about spurious wake-ups, nor about when a client calls Submit or
\* WaitForAll.
Fairness ==
  /\ \A w \in 1..MaxThreads :
       /\ WF_vars(IF w \in Workers THEN WorkerBlock(w) \/ WorkerTake(w) ELSE FALSE)
       /\ WF_vars(IF w \in Workers THEN RunPlain(w) ELSE FALSE)
       /\ WF_vars(IF w \in Workers THEN WorkerFinish(w) ELSE FALSE)
  /\ WF_vars(MainNotify)
  /\ WF_vars(AuxNotify)
  /\ WF_vars(WaitForAllBlock \/ WaitForAllReturn)

SpecLive == InitLive /\ [][NextLive]_vars /\ Fairness

\* ---- ThreadPool::GetNumPendingTasks ----
\* the workers that hold a task they moved out of the queue and have not yet
\* passed the decrement of activeTasks_ for
Dequeued == {w \in Workers : wstate[w] \in {"running", "finishing"}}

GetNumPendingTasksQueued == Len(tasks)

\* return tasks_.size() + activeTasks_, inside a lock on queueMutex_
GetNumPendingTasks == Len(tasks) + activeTasks

\* any thread asks for the count; pending keeps what the call returned and
\* what was queued and in flight at that moment
CallGetNumPendingTasks ==
  /\ pending' = [ret |-> GetNumPendingTasks, queued |-> Len(tasks),
                 inflight |-> Cardinality(Dequeued)]
  /\ UNCHANGED <<poolVars, taskVars, counter, mpc, idx, futures, apc, wfaRet, atStop>>
  /\ UNCHANGED <<pfeVars, stepVars, result, got, galaxyVars>>
  /\ UNCHANGED gpuVars

NextPending ==
  \/ \E w \in Workers : WorkerBlock(w)
  \/ \E w \in Workers : WorkerSpurious(w)
  \/ \E w \in Workers : WorkerTake(w)
  \/ \E w \in Workers : RunPlain(w)
  \/ \E w \in Workers : WorkerFinish(w)
  \/ MainSubmit
  \/ MainNotify
  \/ AuxSubmit
  \/ AuxNotify
  \/ CallGetNumPendingTasks

SpecPending == Init /\ [][NextPending]_vars

\* ---- ParticleGalaxyMode::UpdateParticlePhysics, run by a worker ----
\* the loop condition i < end && i < particles.size()
InLoop(w) == wi[w] < tinfo[wtask[w]].hi /\ wi[w] < P

\* one iteration of the loop: an inactive slot is skipped; an active one is
\* integrated from the forces of massiveObjects_ and deactivated when it is
\* too far from the center
RangeStep(w) ==
  /\ wstate[w] = "running"
  /\ tinfo[wtask[w]].kind = "range"
  /\ InLoop(w)
  /\ IF active[wi[w]]
       THEN /\ seen' = [seen EXCEPT ![wtask[w]] = @ \cup {bodies}]
            /\ writers' = [writers EXCEPT ![wi[w]] = @ \cup {wtask[w]}]
            /\ \E culled \in BOOLEAN :
                 active' = [active EXCEPT ![wi[w]] = ~culled]
       ELSE UNCHANGED <<seen, writers, active>>
  /\ wi' = [wi EXCEPT ![w] = @ + 1]
  /\ UNCHANGED <<numThreads, tasks, stopping, activeTasks, wstate, wtask>>
  /\ UNCHANGED <<fut, runs, tinfo, counter, mpc, idx, futures, apc, wfaRet, atStop>>
  /\ UNCHANGED <<pfeVars, P, bodies, frame, batchSize>>
  /\ UNCHANGED <<getVars, galaxyVars>>
  /\ UNCHANGED gpuVars

\* the loop is over: the packaged_task makes the future ready
RangeDone(w) ==
  /\ wstate[w] = "running"
  /\ tinfo[wtask[w]].kind = "range"
  /\ ~InLoop(w)
  /\ fut' = [fut EXCEPT ![wtask[w]] = "ready"]
  /\ runs' = [runs EXCEPT ![wtask[w]] = @ + 1]
  /\ wstate' = [wstate EXCEPT ![w] = "finishing"]
  /\ wi' = [wi EXCEPT ![w] = 0]
  /\ UNCHANGED <<numThreads, tasks, stopping, activeTasks, wtask>>
  /\ UNCHANGED <<tinfo, seen, counter, mpc, idx, futures, apc, wfaRet, atStop, pfeVars, stepVars>>
  /\ UNCHANGED <<getVars, galaxyVars>>
  /\ UNCHANGED gpuVars

\* an exception leaves the loop in some iteration: the packaged_task stores
\* it in the future
RangeThrow(w) ==
  /\ wstate[w] = "running"
  /\ tinfo[wtask[w]].kind = "range"
  /\ InLoop(w)
  /\ fut' = [fut EXCEPT ![wtask[w]] = "failed"]
  /\ runs' = [runs EXCEPT ![wtask[w]] = @ + 1]
  /\ wstate' = [wstate EXCEPT ![w] = "finishing"]
  /\ wi' = [wi EXCEPT ![w] = 0]
  /\ UNCHANGED <<numThreads, tasks, stopping, activeTasks, wtask>>
  /\ UNCHANGED <<tinfo, seen, counter, mpc, idx, futures, apc, wfaRet, atStop, pfeVars, stepVars>>
  /\ UNCHANGED <<getVars, galaxyVars>>
  /\ UNCHANGED gpuVars

\* ---- ParticleGalaxyMode::UpdatePhysics, run by the main thread ----
\* UpdatePhysics is entered
StepBegin ==
  /\ mpc = "s_idle"
  /\ frame < MaxFrames
  /\ frame' = frame + 1
  /\ idx' = 0
  /\ mpc' = "s_body"
  /\ writers' = [i \in 0..(P - 1) |-> {}]
  /\ seen' = [t \in TaskIds |-> {}]
  /\ fut' = [t \in TaskIds |-> IF fut[t] \in Done THEN "released" ELSE fut[t]]
  /\ UNCHANGED <<poolVars, runs, tinfo, counter, futures, apc, wfaRet, atStop, pfeVars>>
  /\ UNCHANGED <<P, active, bodies, batchSize>>
  /\ UNCHANGED <<getVars, galaxyVars>>
  /\ UNCHANGED gpuVars

BodyLoopOverEarly == TRUE

\* the condition that ends the loop over massiveObjects_
BodyLoopOver == idx = Len(bodies)

\* one iteration of the loop over massiveObjects_: body idx is advanced
StepBody ==
  /\ mpc = "s_body"
  /\ idx < Len(bodies)
  /\ bodies' = [bodies EXCEPT ![idx + 1] = frame]
  /\ idx' = idx + 1
  /\ UNCHANGED <<poolVars, taskVars, counter, mpc, futures, apc, wfaRet, atStop, pfeVars>>
  /\ UNCHANGED <<P, active, writers, frame, batchSize>>
  /\ UNCHANGED <<getVars, galaxyVars>>
  /\ UNCHANGED gpuVars

\* batchSize = particles.size() / GetNumThreads(); with no thread the
\* division by zero is undefined: the program traps, or goes on with some
\* value and a loop over no thread
StepPartition ==
  /\ mpc = "s_body"
  /\ BodyLoopOver
  /\ IF numThreads > 0
       THEN /\ batchSize' = P \div numThreads
            /\ mpc' = "s_submit"
       ELSE \/ /\ batchSize' = 0
               /\ mpc' = "s_crashed"
            \/ /\ batchSize' \in 0..P
               /\ mpc' = "s_wait"
  /\ idx' = 0
  /\ futures' = <<>>
  /\ UNCHANGED <<poolVars, taskVars, counter, apc, wfaRet, atStop, pfeVars>>
  /\ UNCHANGED <<P, active, writers, bodies, frame>>
  /\ UNCHANGED <<getVars, galaxyVars>>
  /\ UNCHANGED gpuVars

RangeStartOverlap(i, bs) == IF i * bs > 0 THEN i * bs - 1 ELSE 0

\* start = i * batchSize
RangeStart(i, bs) == i * bs

RangeEndNoRemainder(i, bs, n, W) == (i + 1) * bs

\* end = (i == GetNumThreads() - 1) ? particles.size() : (i + 1) * batchSize
RangeEnd(i, bs, n, W) == IF i = W - 1 THEN n ELSE (i + 1) * bs

\* futures.push_back(threadPool_->Submit(...)) for range idx
StepSubmit ==
  /\ mpc = "s_submit"
  /\ idx < numThreads
  /\ Submit(RangeTask(RangeStart(idx, batchSize),
                      RangeEnd(idx, batchSize, P, numThreads), frame))
  /\ futures' = IF Threw THEN futures ELSE Append(futures, Len(fut) + 1)
  /\ mpc' = IF Threw THEN "s_idle" ELSE "s_notify"
  /\ UNCHANGED <<numThreads, stopping, activeTasks, wstate, wtask, wi>>
  /\ UNCHANGED <<counter, idx, apc, wfaRet, atStop, pfeVars, stepVars>>
  /\ UNCHANGED <<getVars, galaxyVars>>
  /\ UNCHANGED gpuVars

\* condition_.notify_one() of that Submit, and the next iteration
StepNotify ==
  /\ mpc = "s_notify"
  /\ wstate' \in NotifyOne(wstate)
  /\ idx' = IF idx + 1 = numThreads THEN 0 ELSE idx + 1
  /\ mpc' = IF idx + 1 = numThreads THEN "s_wait" ELSE "s_submit"
  /\ UNCHANGED <<numThreads, tasks, stopping, activeTasks, wtask, wi>>
  /\ UNCHANGED <<taskVars, counter, futures, apc, wfaRet, atStop, pfeVars, stepVars>>
  /\ UNCHANGED <<getVars, galaxyVars>>
  /\ UNCHANGED gpuVars

WaitSkipped(f) == TRUE

\* future.wait() returns once the shared state of the task is ready
WaitOver(f) == fut[f] \in Done

\* future.wait() on the next handle
StepWait ==
  /\ mpc = "s_wait"
  /\ idx < Len(futures)
  /\ WaitOver(futures[idx + 1])
  /\ idx' = idx + 1
  /\ UNCHANGED <<poolVars, taskVars, counter, mpc, futures, apc, wfaRet, atStop, pfeVars, stepVars>>
  /\ UNCHANGED <<getVars, galaxyVars>>
  /\ UNCHANGED gpuVars

\* every handle was waited for: UpdatePhysics returns
StepReturn ==
  /\ mpc = "s_wait"
  /\ idx = Len(futures)
  /\ mpc' = "s_idle"
  /\ idx' = 0
  /\ futures' = <<>>
  /\ UNCHANGED <<poolVars, taskVars, counter, apc, wfaRet, atStop, pfeVars, stepVars>>
  /\ UNCHANGED <<getVars, galaxyVars>>
  /\ UNCHANGED gpuVars

\* ParticleGalaxyMode::AddMassiveObject, from HandleInput between two frames
AddMassiveObject ==
  /\ mpc = "s_idle"
  /\ Len(bodies) < MaxBodies
  /\ bodies' = Append(bodies, 0)
  /\ UNCHANGED <<poolVars, taskVars, counter, mpc, idx, futures, apc, wfaRet, atStop, pfeVars>>
  /\ UNCHANGED <<P, active, writers, frame, batchSize>>
  /\ UNCHANGED <<getVars, galaxyVars>>
  /\ UNCHANGED gpuVars

\* the mode after construction: a pool of hardware_concurrency() threads, a
\* particle buffer and some bodies
InitStep ==
  /\ InitCommon
  /\ NoGpu
  /\ NoGalaxy
  /\ mpc = "s_idle"
  /\ P \in 0..MaxP
  /\ active \in {[i \in 0..(P - 1) |-> i < k] : k \in 0..P}
  /\ writers = [i \in 0..(P - 1) |-> {}]
  /\ bodies \in {[k \in 1..n |-> 0] : n \in 0..MaxBodies}

NextStep ==
  \/ \E w \in Workers : WorkerBlock(w)
  \/ \E w \in Workers : WorkerSpurious(w)
  \/ \E w \in Workers : WorkerTake(w)
  \/ \E w \in Workers : RangeStep(w)
  \/ \E w \in Workers : RangeDone(w)
  \/ \E w \in Workers : RangeThrow(w)
  \/ \E w \in Workers : WorkerFinish(w)
  \/ StepBegin
  \/ StepBody
  \/ StepPartition
  \/ StepSubmit
  \/ StepNotify
  \/ StepWait
  \/ StepReturn
  \/ AddMassiveObject

SpecStep == InitStep /\ [][NextStep]_vars

\* ---- float and glm::vec2 values ----
\* A glm::vec2 is modelled by its x coordinate (the configurations that lie on
\* one horizontal line through the center) and a float by an integer; a
\* quotient is rounded toward zero.  NaN is the one non-number that the
\* arithmetic of the program can produce from these values.
NaN == <<>>
F(n) == <<n>>
IsNaN(a) == a = NaN
FAdd(a, b) == IF IsNaN(a) \/ IsNaN(b) THEN NaN ELSE F(a[1] + b[1])
FSub(a, b) == IF IsNaN(a) \/ IsNaN(b) THEN NaN ELSE F(a[1] - b[1])
FMul(a, b) == IF IsNaN(a) \/ IsNaN(b) THEN NaN ELSE F(a[1] * b[1])
Quot(n, d) == IF n >= 0 THEN n \div d ELSE -((-n) \div d)
\* a / b for b # 0 (every divisor of the program is a mass or a floored
\* squared distance)
FDiv(a, b) == IF IsNaN(a) \/ IsNaN(b) THEN NaN ELSE F(Quot(a[1], b[1]))
\* the quotient and the remainder of a * b by d (a, b >= 0, d > 0), computed
\* by halving b so that no intermediate value leaves the range of TLC's
\* integers
RECURSIVE MulDivQR(_, _, _)
MulDivQR(a, b, d) ==
  IF b = 0 THEN <<0, 0>>
  ELSE LET h == MulDivQR(a, b \div 2, d)
           r == 2 * h[2] + (IF b % 2 = 1 THEN a % d ELSE 0)
       IN <<2 * h[1] + (IF b % 2 = 1 THEN a \div d ELSE 0) + r \div d, r % d>>
\* a * b / c for a, b >= 0 and c > 0
FMulDiv(a, b, c) == IF IsNaN(c) THEN NaN ELSE F(MulDivQR(a, b, c[1])[1])
\* a * b / max(d * d, floor) for a, b >= 0 and floor > 0: the quotient by a
\* square is the quotient by d of the quotient by d, so d * d is never formed
FMulDivSq(a, b, d, floor) ==
  IF IsNaN(d) THEN NaN
  ELSE LET m == IF d[1] < 0 THEN -d[1] ELSE d[1]
       IN IF m <= floor /\ m * m <= floor THEN FMulDiv(a, b, F(floor))
          ELSE F(MulDivQR(a, b, m)[1] \div m)
\* a < b and a > b are false when an operand is NaN
FLt(a, b) == ~IsNaN(a) /\ ~IsNaN(b) /\ a[1] < b[1]
FGt(a, b) == ~IsNaN(a) /\ ~IsNaN(b) /\ a[1] > b[1]
\* std::max(a, b) is (a < b) ? b : a
FMax(a, b) == IF FLt(a, b) THEN b ELSE a
\* glm::length(v) is sqrt(dot(v, v))
FLength(a) == IF IsNaN(a) THEN NaN ELSE F(IF a[1] < 0 THEN -a[1] ELSE a[1])
\* glm::normalize(v) is v * inversesqrt(dot(v, v)): 0 * inf for the zero vector
FNormalize(a) ==
  IF IsNaN(a) \/ a[1] = 0 THEN NaN ELSE F(IF a[1] < 0 THEN -1 ELSE 1)

\* ---- Graphics::ParticleSystem ----
\* a default-constructed Particle
DefaultParticle ==
  [position |-> F(0), velocity |-> F(0), acceleration |-> F(0), lifetime |-> 1,
   age |-> 0, mass |-> 1, active |-> TRUE]

Slots0(ps) == DOMAIN ps

GetInactiveParticleBack(ps) ==
  IF \E i \in Slots0(ps) : ~ps[i].active
    THEN CHOOSE i \in Slots0(ps) :
           ~ps[i].active /\ \A j \in Slots0(ps) : j > i => ps[j].active
    ELSE -1

\* find_if(!p.active): the first inactive slot, or -1 for nullptr
GetInactiveParticle(ps) ==
  IF \E i \in Slots0(ps) : ~ps[i].active
    THEN CHOOSE i \in Slots0(ps) :
           ~ps[i].active /\ \A j \in Slots0(ps) : j < i => ps[j].active
    ELSE -1

EmitParticleKeepAge(ps, tmpl) ==
  LET i == GetInactiveParticle(ps)
  IN IF i # -1 THEN [ps EXCEPT ![i] = [tmpl EXCEPT !.active = TRUE]] ELSE ps

EmitParticleGrow(ps, tmpl) ==
  LET i == GetInactiveParticle(ps)
      n == Cardinality(Slots0(ps))
      made == [tmpl EXCEPT !.active = TRUE, !.age = 0]
  IN IF i # -1 THEN [ps EXCEPT ![i] = made]
     ELSE [k \in 0..n |-> IF k = n THEN made ELSE ps[k]]

EmitParticle(ps, tmpl) ==
  LET i == GetInactiveParticle(ps)
  IN IF i # -1
       THEN [ps EXCEPT ![i] = [tmpl EXCEPT !.active = TRUE, !.age = 0]]
       ELSE ps

EmitBurstOnce(ps, count, tmpl) == IF count = 0 THEN ps ELSE EmitParticle(ps, tmpl)

RECURSIVE EmitBurst(_, _, _)
EmitBurst(ps, count, tmpl) ==
  IF count = 0 THEN ps ELSE EmitBurst(EmitParticle(ps, tmpl), count - 1, tmpl)

ClearAllButLast(ps) ==
  [i \in Slots0(ps) |->
     IF i + 1 < Cardinality(Slots0(ps)) THEN [ps[i] EXCEPT !.active = FALSE] ELSE ps[i]]

Clear(ps) == [i \in Slots0(ps) |-> [ps[i] EXCEPT !.active = FALSE]]

GetActiveParticleCount(ps) == Cardinality({i \in Slots0(ps) : ps[i].active})

UpdateParticleStaleAge(p, deltaTime, g, damp) ==
  LET v1 == FAdd(p.velocity, FMul(FAdd(p.acceleration, g), F(deltaTime)))
      v2 == FDiv(FMul(v1, F(damp)), F(100))
  IN IF p.age >= p.lifetime
       THEN [p EXCEPT !.age = @ + deltaTime, !.active = FALSE]
       ELSE [p EXCEPT !.age = @ + deltaTime, !.velocity = v2,
                      !.position = FAdd(p.position, FMul(v2, F(deltaTime)))]

UpdateParticleLateDeath(p, deltaTime, g, damp) ==
  LET age == p.age + deltaTime
      v1 == FAdd(p.velocity, FMul(FAdd(p.acceleration, g), F(deltaTime)))
      v2 == FDiv(FMul(v1, F(damp)), F(100))
  IN IF age > p.lifetime
       THEN [p EXCEPT !.age = age, !.active = FALSE]
       ELSE [p EXCEPT !.age = age, !.velocity = v2,
                      !.position = FAdd(p.position, FMul(v2, F(deltaTime)))]

\* UpdateParticle: the particle ages, dies at its lifetime, and is otherwise
\* integrated with the store's own gravity and damping
UpdateParticle(p, deltaTime, g, damp) ==
  LET age == p.age + deltaTime
      v1 == FAdd(p.velocity, FMul(FAdd(p.acceleration, g), F(deltaTime)))
      v2 == FDiv(FMul(v1, F(damp)), F(100))
  IN IF age >= p.lifetime
       THEN [p EXCEPT !.age = age, !.active = FALSE]
       ELSE [p EXCEPT !.age = age, !.velocity = v2,
                      !.position = FAdd(p.position, FMul(v2, F(deltaTime)))]

SkipNever(p) == FALSE

\* if (!particle.active) continue;
Skip(p) == ~p.active

\* ParticleSystem::Update
Update(ps, deltaTime, g, damp) ==
  [i \in Slots0(ps) |->
     IF Skip(ps[i]) THEN ps[i] ELSE UpdateParticle(ps[i], deltaTime, g, damp)]

\* ---- Modes::ParticleGalaxyMode ----
\* windowSize.x * 0.5f, the x coordinate of the center
HalfWidth == 100
Center == F(HalfWidth)
\* windowSize.x * 1.5f
CullRadius == F(3 * HalfWidth)
gravitationalConstant == 100
MIN_DISTANCE_SQ == 10
NUM_PRESETS == 5
MAX_TRAIL_LENGTH == 50

CalculateGravitationalForce(pos1, pos2, mass1, mass2) ==
  LET direction == FSub(pos2, pos1)
      \* distanceSq = max(dot(direction, direction), MIN_DISTANCE_SQ) is the
      \* divisor of forceMagnitude
      forceMagnitude == FMulDivSq(gravitationalConstant * mass1, mass2,
                                  direction, MIN_DISTANCE_SQ)
  IN FMul(FNormalize(direction), forceMagnitude)

\* the inner loop over j of the body phase, without j = i
RECURSIVE ForceOnBody(_, _, _)
ForceOnBody(objs, i, j) ==
  IF j > Len(objs) THEN F(0)
  ELSE FAdd(IF j = i THEN F(0)
            ELSE CalculateGravitationalForce(objs[i].position, objs[j].position,
                                             objs[i].mass, objs[j].mass),
            ForceOnBody(objs, i, j + 1))

AdvanceBodyEvictNewest(objs, i, deltaTime, trails) ==
  LET acceleration == FDiv(ForceOnBody(objs, i, 1), F(objs[i].mass))
      velocity == FAdd(objs[i].velocity, FMul(acceleration, F(deltaTime)))
      position == FAdd(objs[i].position, FMul(velocity, F(deltaTime)))
      pushed == Append(objs[i].trail, position)
      trail == IF ~trails THEN objs[i].trail
               ELSE IF Len(pushed) > MAX_TRAIL_LENGTH THEN objs[i].trail ELSE pushed
  IN [objs EXCEPT ![i] = [@ EXCEPT !.velocity = velocity, !.position = position,
                                   !.trail = trail]]

\* one iteration of the body phase: body i is advanced in place and its new
\* position is appended to its trail
AdvanceBody(objs, i, deltaTime, trails) ==
  LET acceleration == FDiv(ForceOnBody(objs, i, 1), F(objs[i].mass))
      velocity == FAdd(objs[i].velocity, FMul(acceleration, F(deltaTime)))
      position == FAdd(objs[i].position, FMul(velocity, F(deltaTime)))
      pushed == Append(objs[i].trail, position)
      trail == IF ~trails THEN objs[i].trail
               ELSE IF Len(pushed) > MAX_TRAIL_LENGTH THEN Tail(pushed) ELSE pushed
  IN [objs EXCEPT ![i] = [@ EXCEPT !.velocity = velocity, !.position = position,
                                   !.trail = trail]]

BodyLoopFromSnapshot(objs, i, deltaTime, trails) ==
  [k \in 1..Len(objs) |-> AdvanceBody(objs, k, deltaTime, trails)[k]]

\* the loop over i of the body phase, from body i on
RECURSIVE BodyLoop(_, _, _, _)
BodyLoop(objs, i, deltaTime, trails) ==
  IF i > Len(objs) THEN objs
  ELSE BodyLoop(AdvanceBody(objs, i, deltaTime, trails), i + 1, deltaTime, trails)

ForceOnParticleBias(p, objs, j) == F(p.mass)

\* the loop over massiveObjects_ for one particle
RECURSIVE ForceOnParticle(_, _, _)
ForceOnParticle(p, objs, j) ==
  IF j > Len(objs) THEN F(0)
  ELSE FAdd(CalculateGravitationalForce(p.position, objs[j].position,
                                        p.mass, objs[j].mass),
            ForceOnParticle(p, objs, j + 1))

\* distanceFromCenter > windowSize.x * 1.5f
Culled(position) == FGt(FLength(FSub(position, Center)), CullRadius)

\* the body of the loop of UpdateParticlePhysics for an active particle
AdvanceParticle(p, objs, deltaTime) ==
  LET acceleration == FDiv(ForceOnParticle(p, objs, 1), F(p.mass))
      velocity == FAdd(p.velocity, FMul(acceleration, F(deltaTime)))
      position == FAdd(p.position, FMul(velocity, F(deltaTime)))
  IN [p EXCEPT !.velocity = velocity, !.position = position,
               !.active = ~Culled(position)]

\* UpdateParticlePhysics(start, end, deltaTime)
UpdateParticlePhysics(ps, start, end, objs, deltaTime) ==
  [i \in Slots0(ps) |->
     IF i >= start /\ i < end /\ ~Skip(ps[i])
       THEN AdvanceParticle(ps[i], objs, deltaTime)
       ELSE ps[i]]

\* the slots whose position and mass that call reads to compute a force
ReadBy(ps, start, end) == {i \in Slots0(ps) : i >= start /\ i < end /\ ~Skip(ps[i])}

\* the tasks of one frame, one per thread i < W, each on its own range
RECURSIVE ParallelPass(_, _, _, _, _)
ParallelPass(ps, i, W, objs, deltaTime) ==
  IF i >= W THEN ps
  ELSE LET bs == Cardinality(Slots0(ps)) \div W
       IN ParallelPass(
            UpdateParticlePhysics(ps, RangeStart(i, bs),
                                  RangeEnd(i, bs, Cardinality(Slots0(ps)), W),
                                  objs, deltaTime),
            i + 1, W, objs, deltaTime)

ParallelReads(ps, W) ==
  LET bs == Cardinality(Slots0(ps)) \div W
  IN UNION {ReadBy(ps, RangeStart(i, bs), RangeEnd(i, bs, Cardinality(Slots0(ps)), W)) :
              i \in 0..(W - 1)}

\* ---- the scenario generator: CreateGalaxyPreset ----
NoTrail == <<>>
BodyNoMass(x, v, m) == [position |-> F(x), velocity |-> F(v), mass |-> 0, trail |-> NoTrail]

\* a CelestialBody whose trail is empty
Body(x, v, m) == [position |-> F(x), velocity |-> F(v), mass |-> m, trail |-> NoTrail]

\* the bodies of a preset: a black hole at the center, two stars 200 apart
\* (their velocities are vertical), or none
PresetBodies(preset) ==
  IF preset = 0 THEN <<Body(HalfWidth, 0, 30000)>>
  ELSE IF preset = 1 THEN <<Body(HalfWidth - 100, 0, 3000), Body(HalfWidth + 100, 0, 2000)>>
  ELSE <<>>

\* the k-th particle of a preset: orbital velocities are vertical, the
\* cluster of preset 2 drifts
PresetParticle(preset, k) ==
  [position |-> F(IF preset = 1
                    THEN (IF k % 3 = 0 THEN HalfWidth - 100 ELSE HalfWidth + 100) + 50 + 10 * k
                    ELSE HalfWidth + 10 * (k + 1)),
   velocity |-> F(IF preset = 2 THEN -10 ELSE 0),
   acceleration |-> F(0), lifetime |-> 1000000, age |-> 0, mass |-> 1,
   active |-> TRUE]

\* how many particles a preset emits into a store of the given capacity: the
\* program emits 28300 to 29800, 30000 and 40000 into a store of 30000
PresetCount(preset, capacity) ==
  IF preset = 0 THEN (IF capacity > 0 THEN capacity - 1 ELSE 0)
  ELSE IF preset = 1 THEN capacity
  ELSE capacity + 1

RECURSIVE EmitPreset(_, _, _, _)
EmitPreset(ps, preset, k, n) ==
  IF k >= n THEN ps
  ELSE EmitPreset(EmitParticle(ps, PresetParticle(preset, k)), preset, k + 1, n)

CreateGalaxyPresetKeepBodies(preset, ps) ==
  LET chosen == IF preset \in {0, 1, 2} THEN preset ELSE 0
  IN [preset |-> chosen,
      objs |-> massiveObjects \o PresetBodies(chosen),
      ps |-> EmitPreset(Clear(ps), chosen, 0,
                        PresetCount(chosen, Cardinality(Slots0(ps))))]

CreateGalaxyPresetKeepIndex(preset, ps) ==
  LET chosen == IF preset \in {0, 1, 2} THEN preset ELSE 0
  IN [preset |-> preset,
      objs |-> PresetBodies(chosen),
      ps |-> EmitPreset(Clear(ps), chosen, 0,
                        PresetCount(chosen, Cardinality(Slots0(ps))))]

\* CreateGalaxyPreset(preset): the registry and the store are cleared and
\* refilled; an index without a case falls back to CreateGalaxyPreset(0)
CreateGalaxyPreset(preset, ps) ==
  LET chosen == IF preset \in {0, 1, 2} THEN preset ELSE 0
  IN [preset |-> chosen,
      objs |-> PresetBodies(chosen),
      ps |-> EmitPreset(Clear(ps), chosen, 0,
                        PresetCount(chosen, Cardinality(Slots0(ps))))]

\* ---- the operations of the store and of the mode ----
\* what the last operation found: the buffer and the registry before it, its
\* arguments, whether it reloaded a scenario, and the slots it read; an input
\* event records its name alone
Input(op) == [op |-> op]

\* what a function declared void hands back to its caller: nothing (a
\* function that returns a value v hands back <<v>>)
Void == <<>>

Last(op, dt, count, tmpl, reloaded, read) ==
  [op |-> op, before |-> particles, objs |-> massiveObjects, dt |-> dt,
   count |-> count, tmpl |-> tmpl, reloaded |-> reloaded, read |-> read,
   ret |-> Void]

\* the templates a caller hands to EmitParticle / EmitBurst; the store
\* overwrites their age and their active flag
FarPos == 4 * HalfWidth + 1
Tmpl(x, v, l) ==
  [position |-> F(x), velocity |-> F(v), acceleration |-> F(0), lifetime |-> l,
   age |-> 1, mass |-> 1, active |-> FALSE]
Templates == {Tmpl(HalfWidth + 10, 3, 2), Tmpl(FarPos, 0, 3)}

\* where a click can put a body: the center, the place of a far particle,
\* and 100 to the left of it
BodyPlaces == {HalfWidth, FarPos, FarPos - 100}

Alive == mpc \in {"g_new", "g_ready"}

\* ParticleSystem::EmitParticle(particleTemplate)
CallEmitParticle ==
  /\ Alive
  /\ \E tmpl \in Templates :
       /\ particles' = EmitParticle(particles, tmpl)
       /\ last' = Last("EmitParticle", 0, 1, tmpl, FALSE, {})
  /\ UNCHANGED <<poolVars, taskVars, counter, mpc, idx, futures, apc, wfaRet, atStop>>
  /\ UNCHANGED <<pfeVars, stepVars, getVars, maxParticles, gravity, damping, modeVars>>
  /\ UNCHANGED gpuVars

\* ParticleSystem::EmitBurst(count, particleTemplate)
CallEmitBurst ==
  /\ Alive
  /\ \E count \in 0..(MaxCap + 1), tmpl \in Templates :
       /\ particles' = EmitBurst(particles, count, tmpl)
       /\ last' = Last("EmitBurst", 0, count, tmpl, FALSE, {})
  /\ UNCHANGED <<poolVars, taskVars, counter, mpc, idx, futures, apc, wfaRet, atStop>>
  /\ UNCHANGED <<pfeVars, stepVars, getVars, maxParticles, gravity, damping, modeVars>>
  /\ UNCHANGED gpuVars

\* ParticleSystem::Clear()
CallClear ==
  /\ Alive
  /\ particles' = Clear(particles)
  /\ last' = Last("Clear", 0, 0, DefaultParticle, FALSE, {})
  /\ UNCHANGED <<poolVars, taskVars, counter, mpc, idx, futures, apc, wfaRet, atStop>>
  /\ UNCHANGED <<pfeVars, stepVars, getVars, maxParticles, gravity, damping, modeVars>>
  /\ UNCHANGED gpuVars

\* ParticleSystem::Update(deltaTime), called on the store alone
CallUpdate ==
  /\ Alive
  /\ steps < MaxFrames
  /\ \E dt \in 1..MaxDt :
       /\ particles' = Update(particles, dt, F(gravity), damping)
       /\ last' = Last("StoreUpdate", dt, 0, DefaultParticle, FALSE, {})
  /\ steps' = steps + 1
  /\ UNCHANGED <<poolVars, taskVars, counter, mpc, idx, futures, apc, wfaRet, atStop>>
  /\ UNCHANGED <<pfeVars, stepVars, getVars, maxParticles, gravity, damping>>
  /\ UNCHANGED <<massiveObjects, paused, showTrails, currentPreset, demoMode, timeDilation>>
  /\ UNCHANGED gpuVars

\* ParticleGalaxyMode::Initialize, called once when the mode is registered
Initialize ==
  /\ mpc = "g_new"
  /\ mpc' = "g_ready"
  /\ gravity' = 0
  /\ damping' = 100
  /\ LET made == CreateGalaxyPreset(0, particles)
     IN /\ currentPreset' = made.preset
        /\ massiveObjects' = made.objs
        /\ particles' = made.ps
  /\ last' = Input("Load")
  /\ UNCHANGED <<poolVars, taskVars, counter, idx, futures, apc, wfaRet, atStop>>
  /\ UNCHANGED <<pfeVars, stepVars, getVars, maxParticles, paused, showTrails, demoMode, steps>>
  /\ UNCHANGED timeDilation
  /\ UNCHANGED gpuVars

\* HandleInput, KeyPressed Num1..Num5 (preset) and R (currentPreset_)
KeyPreset ==
  /\ mpc = "g_ready"
  /\ \E preset \in (0..(NUM_PRESETS - 1)) \cup {currentPreset} :
       LET made == CreateGalaxyPreset(preset, particles)
       IN /\ currentPreset' = made.preset
          /\ massiveObjects' = made.objs
          /\ particles' = made.ps
  /\ last' = Input("Load")
  /\ UNCHANGED <<poolVars, taskVars, counter, mpc, idx, futures, apc, wfaRet, atStop>>
  /\ UNCHANGED <<pfeVars, stepVars, getVars, maxParticles, gravity, damping>>
  /\ UNCHANGED <<paused, showTrails, demoMode, timeDilation, steps>>
  /\ UNCHANGED gpuVars

\* HandleInput, KeyPressed Space
KeySpace ==
  /\ mpc = "g_ready"
  /\ paused' = ~paused
  /\ last' = Input("Space")
  /\ UNCHANGED <<poolVars, taskVars, counter, mpc, idx, futures, apc, wfaRet, atStop>>
  /\ UNCHANGED <<pfeVars, stepVars, getVars, storeVars>>
  /\ UNCHANGED <<massiveObjects, showTrails, currentPreset, demoMode, timeDilation, steps>>
  /\ UNCHANGED gpuVars

\* HandleInput, KeyPressed T: the trails are cleared when they are switched off
KeyT ==
  /\ mpc = "g_ready"
  /\ showTrails' = ~showTrails
  /\ massiveObjects' =
       IF showTrails
         THEN [i \in 1..Len(massiveObjects) |-> [massiveObjects[i] EXCEPT !.trail = NoTrail]]
         ELSE massiveObjects
  /\ last' = Input("T")
  /\ UNCHANGED <<poolVars, taskVars, counter, mpc, idx, futures, apc, wfaRet, atStop>>
  /\ UNCHANGED <<pfeVars, stepVars, getVars, storeVars>>
  /\ UNCHANGED <<paused, currentPreset, demoMode, timeDilation, steps>>
  /\ UNCHANGED gpuVars

\* HandleInput, MouseButtonPressed Left: AddMassiveObject(position)
MouseLeft ==
  /\ mpc = "g_ready"
  /\ Len(massiveObjects) < MaxBodies
  /\ \E x \in BodyPlaces : massiveObjects' = Append(massiveObjects, Body(x, 0, 1000))
  /\ last' = Input("Add")
  /\ UNCHANGED <<poolVars, taskVars, counter, mpc, idx, futures, apc, wfaRet, atStop>>
  /\ UNCHANGED <<pfeVars, stepVars, getVars, storeVars>>
  /\ UNCHANGED <<paused, showTrails, currentPreset, demoMode, timeDilation, steps>>
  /\ UNCHANGED gpuVars

HaltedNever == FALSE

\* if (paused_) return;
Halted == paused

\* float scaledDeltaTime = deltaTime * timeDilation_
Scaled(deltaTime) == Quot(deltaTime * timeDilation, 1000)

\* ParticleGalaxyMode::Update(deltaTime) for a time delta of the given set,
\* while fewer than bound calls have been made; dt is the scaled time delta.
\* In demo mode the timer may have run out, and the next preset is loaded
\* first.  UpdatePhysics then advances the bodies, runs one task per thread
\* over the particles and waits for them, and ParticleSystem::Update ages and
\* integrates the particles.  With no thread, batchSize divides by zero: the
\* program traps after the body phase, or goes on with a loop over no thread.
Frame(deltas, bound) ==
  /\ mpc = "g_ready"
  /\ steps < bound
  /\ steps' = steps + 1
  /\ \E deltaTime \in deltas, due \in (IF demoMode /\ ~paused THEN BOOLEAN ELSE {FALSE}) :
       LET dt == Scaled(deltaTime) IN
       IF Halted
         THEN /\ last' = Last("Paused", dt, 0, DefaultParticle, FALSE, {})
              /\ UNCHANGED <<mpc, particles, massiveObjects, currentPreset>>
         ELSE LET made == IF due
                            THEN CreateGalaxyPreset((currentPreset + 1) % NUM_PRESETS, particles)
                            ELSE [preset |-> currentPreset, objs |-> massiveObjects,
                                  ps |-> particles]
                  objs == BodyLoop(made.objs, 1, dt, showTrails)
              IN /\ currentPreset' = made.preset
                 /\ massiveObjects' = objs
                 /\ IF numThreads > 0
                      THEN /\ particles' =
                                Update(ParallelPass(made.ps, 0, numThreads, objs, dt),
                                       dt, F(gravity), damping)
                           /\ last' = Last("Update", dt, 0, DefaultParticle, due,
                                           ParallelReads(made.ps, numThreads))
                           /\ mpc' = mpc
                      ELSE \/ /\ particles' = made.ps
                              /\ last' = Last("Trap", dt, 0, DefaultParticle, due, {})
                              /\ mpc' = "g_crashed"
                           \/ /\ particles' = Update(made.ps, dt, F(gravity), damping)
                              /\ last' = Last("Update", dt, 0, DefaultParticle, due, {})
                              /\ mpc' = mpc
  /\ UNCHANGED <<poolVars, taskVars, counter, idx, futures, apc, wfaRet, atStop>>
  /\ UNCHANGED <<pfeVars, stepVars, getVars, maxParticles, gravity, damping>>
  /\ UNCHANGED <<paused, showTrails, demoMode, timeDilation>>
  /\ UNCHANGED gpuVars

\* a frame of the running program: the clock hands Update a positive delta
ModeUpdate == Frame(1..MaxDt, MaxFrames)

\* the mode after construction: a store of maxParticles default particles
\* (which are active), default gravity and damping, no body.  The result of a
\* frame is the same for every positive number of threads, so the pool has
\* none or MaxThreads.
InitGalaxy ==
  /\ InitCommon
  /\ NoGpu
  /\ numThreads \in {0, MaxThreads}
  /\ mpc = "g_new"
  /\ P = 0
  /\ active = <<>>
  /\ writers = <<>>
  /\ bodies = <<>>
  /\ maxParticles \in 0..MaxCap
  /\ particles = [i \in 0..(maxParticles - 1) |-> DefaultParticle]
  /\ gravity = 0
  /\ damping = 99
  /\ massiveObjects = <<>>
  /\ paused = FALSE
  /\ showTrails = TRUE
  /\ currentPreset = 0
  /\ demoMode \in BOOLEAN
  /\ timeDilation = 1000
  /\ steps = 0
  /\ last = [op |-> "none"]

\* the mode and its frames; a caller may also emit single particles
NextGalaxy ==
  \/ CallEmitParticle
  \/ Initialize
  \/ KeyPreset
  \/ KeySpace
  \/ MouseLeft
  \/ ModeUpdate

SpecGalaxy == InitGalaxy /\ [][NextGalaxy]_vars

\* ---- the Body Registry under loads, added bodies and steps ----
\* the positions AddMassiveObject is called with: two mirror images about
\* the origin, and the center of the window
Positions == {-10, 10, HalfWidth}

\* AddMassiveObject(position), called with any position
CallAddMassiveObject ==
  /\ mpc = "g_ready"
  /\ Len(massiveObjects) < MaxBodies
  /\ \E x \in Positions : massiveObjects' = Append(massiveObjects, Body(x, 0, 1000))
  /\ last' = Input("Add")
  /\ UNCHANGED <<poolVars, taskVars, counter, mpc, idx, futures, apc, wfaRet, atStop>>
  /\ UNCHANGED <<pfeVars, stepVars, getVars, storeVars>>
  /\ UNCHANGED <<paused, showTrails, currentPreset, demoMode, timeDilation, steps>>
  /\ UNCHANGED gpuVars

\* Update(deltaTime), called with any time delta but zero
CallModeUpdate == Frame((-1..MaxDt) \ {0}, MaxFrames)

InitBodies ==
  /\ InitGalaxy
  /\ numThreads = MaxThreads
  /\ maxParticles <= 1
  /\ demoMode = FALSE

NextBodies ==
  \/ Initialize
  \/ KeyPreset
  \/ KeySpace
  \/ KeyT
  \/ CallAddMassiveObject
  \/ CallModeUpdate

SpecBodies == InitBodies /\ [][NextBodies]_vars

\* ---- the trails of the bodies over a long run ----
\* Update(deltaTime) with the time delta of a fixed frame rate, for as many
\* frames as fill a trail
LongRunUpdate == Frame({1}, MaxTrailFrames)

InitTrail ==
  /\ InitGalaxy
  /\ numThreads = MaxThreads
  /\ maxParticles = 0
  /\ demoMode = FALSE

NextTrail ==
  \/ Initialize
  \/ KeyPreset
  \/ KeyT
  \/ LongRunUpdate

SpecTrail == InitTrail /\ [][NextTrail]_vars

\* ---- the scroll wheel: timeDilation_ ----
ClampNoUpper(x, minVal, maxVal) == IF x < minVal THEN minVal ELSE x

\* glm::clamp(x, minVal, maxVal) is min(max(x, minVal), maxVal)
Clamp(x, minVal, maxVal) ==
  LET raised == IF x < minVal THEN minVal ELSE x
  IN IF maxVal < raised THEN maxVal ELSE raised

\* the bounds 0.1f and 10.0f of the clamp, in thousandths
MinDilation == 100
MaxDilation == 10000

\* HandleInput, MouseWheelScrolled: timeDilation_ *= (delta > 0) ? 1.1f : 0.9f,
\* then the clamp
MouseWheel ==
  /\ mpc = "g_ready"
  /\ \E delta \in {-1, 0, 1} :
       /\ timeDilation' =
            Clamp(Quot(timeDilation * (IF delta > 0 THEN 11 ELSE 9), 10),
                  MinDilation, MaxDilation)
       /\ last' = [op |-> "Wheel", delta |-> delta, from |-> timeDilation]
  /\ UNCHANGED <<poolVars, taskVars, counter, mpc, idx, futures, apc, wfaRet, atStop>>
  /\ UNCHANGED <<pfeVars, stepVars, getVars, storeVars>>
  /\ UNCHANGED <<massiveObjects, paused, showTrails, currentPreset, demoMode, steps>>
  /\ UNCHANGED gpuVars

InitWheel ==
  /\ InitGalaxy
  /\ numThreads = MaxThreads
  /\ maxParticles = 0
  /\ demoMode = FALSE

NextWheel ==
  \/ Initialize
  \/ MouseWheel
  \/ ModeUpdate

SpecWheel == InitWheel /\ [][NextWheel]_vars

\* ---- the slots of the store under emissions, loads and frames ----
InitSlots ==
  /\ InitGalaxy
  /\ numThreads = MaxThreads
  /\ demoMode = FALSE

NextSlots ==
  \/ CallEmitParticle
  \/ CallEmitBurst
  \/ CallUpdate
  \/ Initialize
  \/ KeyPreset
  \/ ModeUpdate

SpecSlots == InitSlots /\ [][NextSlots]_vars

\* the store under its own operations and the scenario loads of its owner
InitStore ==
  /\ InitGalaxy
  /\ numThreads = MaxThreads
  /\ demoMode = FALSE

NextStore ==
  \/ CallEmitParticle
  \/ CallEmitBurst
  \/ CallClear
  \/ CallUpdate
  \/ Initialize
  \/ KeyPreset

SpecStore == InitStore /\ [][NextStore]_vars

\* ---- Graphics::GPUParticleSystem ----
\* std::size_t, scaled down to SizeBits bits
SizeMod == 2 ^ SizeBits

\* ++i and --i on a std::size_t: 0 - 1 wraps to the largest value
Inc(i) == (i + 1) % SizeMod
Dec(i) == (i - 1) % SizeMod

\* a value-initialized GPUParticleData; data stands for its other fields
DefaultGpuParticle == [data |-> 0, lifetime |-> 0, age |-> 0]

\* the particles a caller hands to EmitParticle
GpuTemplates == [data : 1..2, lifetime : 0..MaxLife, age : {0, MaxLife}]

RecheckNone(i) == Inc(i)

\* --i after the swap, then the ++i of the loop: index i is looked at again
Recheck(i) == Inc(Dec(i))

\* std::swap(particles_[a], particles_[b])
Swap(ps, a, b) == [ps EXCEPT ![a] = ps[b], ![b] = ps[a]]

\* the loop of GPUParticleSystem::Update from index i on, over n active
\* particles: the particle is aged; a dead one is swapped with the last
\* active one unless it is the last, and the index is stepped back to look at
\* the particle that took its place
RECURSIVE GpuUpdateLoop(_, _, _, _)
GpuUpdateLoop(ps, n, i, deltaTime) ==
  IF ~(i < n) THEN [ps |-> ps, n |-> n]
  ELSE LET aged == [ps EXCEPT ![i].age = @ + deltaTime]
       IN IF aged[i].age >= aged[i].lifetime
            THEN IF i < Dec(n)
                   THEN GpuUpdateLoop(Swap(aged, i, Dec(n)), Dec(n), Recheck(i), deltaTime)
                   ELSE GpuUpdateLoop(aged, Dec(n), Inc(i), deltaTime)
            ELSE GpuUpdateLoop(aged, n, Inc(i), deltaTime)

\* GPUParticleSystem::Update(deltaTime)
GpuUpdate ==
  /\ \E deltaTime \in 0..MaxDt :
       LET r == GpuUpdateLoop(gpuParticles, activeParticles, 0, deltaTime)
       IN /\ gpuParticles' = r.ps
          /\ activeParticles' = r.n
          /\ gpuLast' = [op |-> "Update", before |-> gpuParticles,
                         n |-> activeParticles, dt |-> deltaTime]
  /\ UNCHANGED gpuMaxParticles
  /\ UNCHANGED <<poolVars, taskVars, counter, mpc, idx, futures, apc, wfaRet, atStop>>
  /\ UNCHANGED <<pfeVars, stepVars, getVars, galaxyVars>>

\* GPUParticleSystem::EmitParticle(particle): dropped when the buffer is full
GpuEmitParticle ==
  /\ \E particle \in GpuTemplates :
       IF activeParticles < gpuMaxParticles
         THEN /\ gpuParticles' = [gpuParticles EXCEPT ![activeParticles] =
                                    [particle EXCEPT !.age = 0]]
              /\ activeParticles' = Inc(activeParticles)
         ELSE UNCHANGED <<gpuParticles, activeParticles>>
  /\ gpuLast' = [op |-> "Emit"]
  /\ UNCHANGED gpuMaxParticles
  /\ UNCHANGED <<poolVars, taskVars, counter, mpc, idx, futures, apc, wfaRet, atStop>>
  /\ UNCHANGED <<pfeVars, stepVars, getVars, galaxyVars>>

\* GPUParticleSystem::Clear()
GpuClear ==
  /\ activeParticles' = 0
  /\ gpuLast' = [op |-> "Clear"]
  /\ UNCHANGED <<gpuMaxParticles, gpuParticles>>
  /\ UNCHANGED <<poolVars, taskVars, counter, mpc, idx, futures, apc, wfaRet, atStop>>
  /\ UNCHANGED <<pfeVars, stepVars, getVars, galaxyVars>>

\* GPUParticleSystem(maxParticles): a buffer of maxParticles value-initialized
\* particles, none of them active; no pool and no mode
InitGpu ==
  /\ InitCommon
  /\ NoGalaxy
  /\ numThreads = 0
  /\ mpc = "idle"
  /\ P = 0
  /\ active = <<>>
  /\ writers = <<>>
  /\ bodies = <<>>
  /\ gpuMaxParticles \in 0..MaxGpu
  /\ gpuParticles = [i \in 0..(gpuMaxParticles - 1) |-> DefaultGpuParticle]
  /\ activeParticles = 0
  /\ gpuLast = [op |-> "none"]

NextGpu ==
  \/ GpuUpdate
  \/ GpuEmitParticle
  \/ GpuClear

SpecGpu == InitGpu /\ [][NextGpu]_vars

\* ---- the claims ----
RangeTasks == {t \in TaskIds : tinfo[t].kind = "range"}
FrameTasks(f) == {t \in RangeTasks : tinfo[t].frame = f}
Slots(t) == tinfo[t].lo..(tinfo[t].hi - 1)
Pending(t) == InQueue(t) \/ Executing(t)

\* C1: when WaitForAll returns, every task enqueued so far has been executed
\* exactly once (the shared counter reads the number of counter tasks
\* enqueued), whatever the interleaving of the two submitters and the
\* workers; and at no time has a task been executed twice.
ExactlyOnce ==
  /\ \A t \in TaskIds : runs[t] <= 1
  /\ wfaRet.valid =>
       /\ wfaRet.cnt = wfaRet.plain
       /\ \A t \in DOMAIN wfaRet.runs : wfaRet.runs[t] = 1

\* a return of WaitForAll after two or more tasks were executed by a worker
ExactlyOnceWitness == wfaRet.valid /\ wfaRet.cnt >= 2 /\ numThreads >= 1

\* C2: at the moment WaitForAll returns the queue is empty, activeTasks_ is 0,
\* no worker is executing a task, and no task submitted before the call is
\* still unfinished.
WaitForAllBarrier ==
  wfaRet.valid =>
    /\ wfaRet.q = 0
    /\ wfaRet.act = 0
    /\ wfaRet.busy = {}
    /\ wfaRet.open = {}

\* a return of WaitForAll that had tasks submitted before the call
WaitForAllBarrierWitness == wfaRet.valid /\ wfaRet.before # {}

\* C3: a Submit that finds stopping_ set ends with the exception and leaves
\* the queue as it was, and the task it was given is never queued, never
\* taken by a worker and never executed.
SubmitAfterStopRejected ==
  /\ [][stopping /\ Len(fut') > Len(fut) =>
          tasks' = tasks /\ fut'[Len(fut')] = "rejected"]_vars
  /\ [](\A t \in TaskIds : fut[t] = "rejected" =>
          /\ ~InQueue(t)
          /\ runs[t] = 0
          /\ \A w \in Workers : wtask[w] # t)

\* a Submit was made while the destructor was running
SubmitAfterStopWitness == \E t \in TaskIds : fut[t] = "rejected"

\* C4 as stated: every task whose handle Submit returned before the stop
\* signal is executed to completion before the destructor returns; a worker
\* exits only when stopping_ is set and the queue is empty; the destructor
\* returns only after every worker has exited.
ShutdownDrains ==
  /\ \A w \in Workers : wstate[w] = "exited" => stopping /\ tasks = <<>>
  /\ mpc = "destroyed" =>
       /\ \A w \in Workers : wstate[w] = "exited"
       /\ \A t \in atStop.handles : fut[t] \in Done /\ runs[t] = 1

\* C4: in a pool with at least one worker, every task whose handle Submit
\* returned before the stop signal is executed to completion before the
\* destructor returns; in any pool a worker exits only when stopping_ is set
\* and the queue is empty, and the destructor returns only after every worker
\* has exited.
ShutdownDrainsWithWorker ==
  /\ \A w \in Workers : wstate[w] = "exited" => stopping /\ tasks = <<>>
  /\ mpc = "destroyed" =>
       /\ \A w \in Workers : wstate[w] = "exited"
       /\ numThreads >= 1 =>
            \A t \in atStop.handles : fut[t] \in Done /\ runs[t] = 1

\* the destructor of a pool with workers has returned, and two tasks were
\* queued or in flight when it set stopping_
ShutdownDrainsWitness ==
  mpc = "destroyed" /\ numThreads >= 1 /\ Cardinality(atStop.open) >= 2

\* C5: UpdatePhysics does not return normally from a frame in which one of
\* its range tasks failed.
FailurePropagates ==
  mpc = "s_idle" => \A t \in FrameTasks(frame) : fut[t] # "failed"

\* C6: when UpdatePhysics returns, none of its range tasks is still queued or
\* running, and as long as a range task of an earlier frame is unfinished no
\* range task of a later frame exists.
FrameCoherence ==
  /\ mpc = "s_idle" =>
       \A t \in RangeTasks : fut[t] \in Done \cup {"released"} /\ ~Pending(t)
  /\ \A t \in RangeTasks : tinfo[t].frame < frame => fut[t] = "released"

\* the second frame has returned in a pool of two workers
FrameCoherenceWitness ==
  mpc = "s_idle" /\ frame = 2 /\ numThreads = 2 /\ FrameTasks(2) # {}

\* C7: once the W >= 1 range tasks of a frame are submitted, their ranges
\* [start, end) are pairwise disjoint and their union is [0, P).
PartitionCoverage ==
  \A f \in 1..frame :
    numThreads >= 1 /\ Cardinality(FrameTasks(f)) = numThreads =>
      /\ UNION {Slots(t) : t \in FrameTasks(f)} = 0..(P - 1)
      /\ \A t1, t2 \in FrameTasks(f) : t1 # t2 => Slots(t1) \cap Slots(t2) = {}

\* a frame fully submitted where W does not divide P
PartitionCoverageWitness ==
  mpc = "s_wait" /\ numThreads = 2 /\ P = 3 /\ Cardinality(FrameTasks(frame)) = 2

\* C8: within a frame no particle slot is written by two range tasks and no
\* range task writes a slot outside its own [start, end).
RaceFreedom ==
  \A i \in DOMAIN writers :
    /\ Cardinality(writers[i]) <= 1
    /\ \A t \in writers[i] : i \in Slots(t)

\* two range tasks of a frame have each written a slot
RaceFreedomWitness ==
  \E i, j \in DOMAIN writers :
    writers[i] # {} /\ writers[j] # {} /\ writers[i] # writers[j]

\* C9: while a range task is queued or running the main thread is past the
\* loop over the bodies and every body was advanced in this frame; no step
\* taken while a range task is queued or running changes the Body Registry;
\* a range task reads only that post-update registry, and all range tasks of
\* a frame have read the same registry.
PhaseSeparation ==
  /\ [](\A t \in RangeTasks : Pending(t) =>
          /\ mpc \in {"s_submit", "s_notify", "s_wait"}
          /\ \A b \in 1..Len(bodies) : bodies[b] = frame)
  /\ [][(\E t \in RangeTasks : Pending(t)) => bodies' = bodies]_vars
  /\ [](\A t \in RangeTasks : Pending(t) =>
          seen[t] \subseteq {[b \in 1..Len(bodies) |-> frame]})
  /\ [](Cardinality(UNION {seen[t] : t \in RangeTasks}) <= 1)

\* two range tasks have read a registry of two bodies in the second frame
PhaseSeparationWitness ==
  /\ frame = 2
  /\ Len(bodies) = 2
  /\ \E t1, t2 \in FrameTasks(2) : t1 # t2 /\ seen[t1] # {} /\ seen[t2] # {}

\* C10: when ParallelForEach has returned, the function has been applied
\* exactly once to every element of the collection.
ForEachAppliesOnce ==
  pfeDone => \A e \in 1..pfeN : applied[e] = 1

\* C11: the handle returned by Submit yields the result of exactly the task
\* it was returned for, whatever the order in which the workers complete the
\* tasks: every value get() returned through handle k is the value task k
\* computed from its own argument, and get() returned only after task k had
\* run to completion.
HandleYieldsResult ==
  \A g \in got :
    /\ fut[g[1]] = "ready"
    /\ runs[g[1]] = 1
    /\ tinfo[g[1]].arg = g[1]
    /\ g[2] = g[1] * g[1]

\* a handle was retrieved while a task submitted before it was still running
HandleYieldsResultWitness ==
  \E g \in got : \E t \in TaskIds : t < g[1] /\ fut[t] = "pending"

\* the slots of a buffer that are inactive, and those that are active
Inactive(ps) == {i \in DOMAIN ps : ~ps[i].active}
Active(ps) == {i \in DOMAIN ps : ps[i].active}
Min2(a, b) == IF a < b THEN a ELSE b
\* a frame update of the mode that ran to its end without loading a scenario
Stepped == last.op = "Update" /\ ~last.reloaded

\* C12: EmitParticle on a store with an inactive slot turns exactly one
\* previously inactive slot into an active slot that holds the template's
\* state with age 0, and leaves every other slot unchanged; on a store whose
\* slots are all active it changes no slot.
EmitFrame ==
  last.op = "EmitParticle" =>
    IF Inactive(last.before) # {}
      THEN \E i \in Inactive(last.before) :
             /\ particles[i].active
             /\ particles[i].age = 0
             /\ particles[i].position = last.tmpl.position
             /\ particles[i].velocity = last.tmpl.velocity
             /\ particles[i].acceleration = last.tmpl.acceleration
             /\ particles[i].lifetime = last.tmpl.lifetime
             /\ particles[i].mass = last.tmpl.mass
             /\ \A j \in DOMAIN particles : j # i => particles[j] = last.before[j]
      ELSE particles = last.before

\* EmitParticle found a store with an inactive and an active slot
EmitFrameWitness ==
  /\ last.op = "EmitParticle"
  /\ Inactive(last.before) # {}
  /\ Active(last.before) # {}

\* C13: capacity exhaustion is signalled to the caller as a value: emit
\* returns false when the store is full and true when a slot was activated,
\* and emit_burst reports how many particles it emitted.
EmitReportsCapacity ==
  /\ last.op = "EmitParticle" => last.ret = <<Inactive(last.before) # {}>>
  /\ last.op = "EmitBurst" =>
       last.ret = <<Cardinality(Active(particles)) - Cardinality(Active(last.before))>>

\* C14: EmitBurst(count, template) on a store with f inactive slots activates
\* exactly min(count, f) slots, also when count > f: no slot is deactivated,
\* and the active count grows by min(count, f).
BurstActivatesMin ==
  last.op = "EmitBurst" =>
    /\ Active(last.before) \subseteq Active(particles)
    /\ Cardinality(Active(particles)) =
         Cardinality(Active(last.before)) +
         Min2(last.count, Cardinality(Inactive(last.before)))

\* EmitBurst was asked for more particles than there were inactive slots,
\* and there was one
BurstActivatesMinWitness ==
  /\ last.op = "EmitBurst"
  /\ Inactive(last.before) # {}
  /\ last.count > Cardinality(Inactive(last.before))

\* C15: Clear deactivates every slot and keeps the length of the buffer: after
\* Clear the active particle count is 0 and the capacity is what it was.
ClearDeactivatesAll ==
  last.op = "Clear" =>
    /\ \A i \in DOMAIN particles : ~particles[i].active
    /\ DOMAIN particles = DOMAIN last.before
    /\ Cardinality(DOMAIN particles) = maxParticles

\* Clear found a store with two active slots
ClearDeactivatesAllWitness ==
  last.op = "Clear" /\ Cardinality(Active(last.before)) >= 2

\* C16: fixed capacity: after any sequence of EmitParticle, EmitBurst, Clear,
\* Update and scenario loads the buffer has exactly the length given at
\* construction, and the number of active particles does not exceed it.
FixedCapacity ==
  /\ DOMAIN particles = 0..(maxParticles - 1)
  /\ Cardinality(Active(particles)) <= maxParticles

\* an emit found the store full after a scenario load
FixedCapacityWitness ==
  /\ mpc = "g_ready"
  /\ maxParticles > 0
  /\ last.op \in {"EmitParticle", "EmitBurst"}
  /\ last.count > 0
  /\ Inactive(last.before) = {}

\* C17: a slot that is inactive at the start of a frame is neither read for
\* the force computation nor modified by that frame's update (the parallel
\* pass and the store's own Update).
InactiveUntouched ==
  Stepped =>
    \A i \in Inactive(last.before) :
      particles[i] = last.before[i] /\ i \notin last.read

\* a frame found an inactive slot and an active one, which it read and moved
InactiveUntouchedWitness ==
  /\ Stepped
  /\ Inactive(last.before) # {}
  /\ \E j \in Active(last.before) :
       j \in last.read /\ particles[j].position # last.before[j].position

\* C18: an active particle whose age is lifetime - eps is inactive after one
\* step with dt > eps, and a slot that died of age is not re-activated and
\* keeps its position and velocity in every later step.
DeactivationByAge ==
  Stepped =>
    /\ \A i \in Active(last.before) :
         last.dt > last.before[i].lifetime - last.before[i].age =>
           ~particles[i].active
    /\ \A i \in Inactive(last.before) :
         last.before[i].age >= last.before[i].lifetime =>
           /\ ~particles[i].active
           /\ particles[i].position = last.before[i].position
           /\ particles[i].velocity = last.before[i].velocity

\* a particle that had aged without dying met a step longer than what was
\* left of its lifetime, and had not left the culling radius
DeactivationByAgeWitness ==
  /\ Stepped
  /\ \E i \in Active(last.before) :
       /\ last.before[i].age > 0
       /\ last.before[i].age < last.before[i].lifetime
       /\ last.dt > last.before[i].lifetime - last.before[i].age
       /\ ~Culled(particles[i].position)
       /\ ~particles[i].active

\* C19: an active particle that starts a step farther from the center than
\* the culling radius, with zero velocity, is inactive after that step,
\* whatever the bodies are (in a pool with a worker).
CullingRegardlessOfBodies ==
  Stepped /\ numThreads >= 1 =>
    \A i \in Active(last.before) :
      /\ Culled(last.before[i].position)
      /\ last.before[i].velocity = F(0)
      => ~particles[i].active

\* C20: with an empty Body Registry, one step with any dt > 0 leaves the
\* velocity of every active particle exactly as it was.
NoBodiesNoForce ==
  Stepped /\ last.objs = <<>> =>
    \A i \in Active(last.before) : particles[i].velocity = last.before[i].velocity

\* a step without bodies moved a particle that has a velocity
NoBodiesNoForceWitness ==
  /\ Stepped
  /\ last.objs = <<>>
  /\ \E i \in Active(last.before) :
       /\ last.before[i].velocity # F(0)
       /\ particles[i].active
       /\ particles[i].position # last.before[i].position

\* two bodies of equal mass that are mirror images of each other about the
\* origin, in position and in velocity
Mirror(objs) ==
  /\ Len(objs) = 2
  /\ objs[1].mass = objs[2].mass
  /\ objs[1].position = FSub(F(0), objs[2].position)
  /\ objs[1].velocity = FSub(F(0), objs[2].velocity)
  /\ ~IsNaN(objs[2].position)
  /\ ~IsNaN(objs[2].velocity)

\* C21: two bodies of equal mass at p and -p with velocities v and -v are
\* still exact mirror images of each other about the origin after a step,
\* and so after any number of steps.
TwoBodySymmetry ==
  last.op = "Update" /\ last.dt > 0 /\ Mirror(last.objs) => Mirror(massiveObjects)

\* C22: the trail of every body holds at most MAX_TRAIL_LENGTH positions;
\* a step with trails enabled appends the new position of the body as the
\* newest entry and, when the trail was full, removes exactly the oldest
\* entry and keeps the others in order.
TrailBoundFifo ==
  /\ \A i \in 1..Len(massiveObjects) : Len(massiveObjects[i].trail) <= MAX_TRAIL_LENGTH
  /\ Stepped /\ showTrails =>
       /\ Len(massiveObjects) = Len(last.objs)
       /\ \A i \in 1..Len(massiveObjects) :
            LET old == last.objs[i].trail
                kept == IF Len(old) < MAX_TRAIL_LENGTH THEN old ELSE Tail(old)
            IN massiveObjects[i].trail = Append(kept, massiveObjects[i].position)

\* a step found a full trail of a moving body and evicted its oldest entry
TrailBoundFifoWitness ==
  /\ Stepped
  /\ showTrails
  /\ \E i \in 1..Len(massiveObjects) :
       LET old == last.objs[i].trail
       IN /\ Len(old) = MAX_TRAIL_LENGTH
          /\ old[1] # old[2]
          /\ old[2] # massiveObjects[i].position
          /\ Len(massiveObjects[i].trail) = MAX_TRAIL_LENGTH
          /\ massiveObjects[i].trail[1] = old[2]

\* C23: the time dilation factor is 1.0 at the start and stays within
\* [0.1, 10.0] after any sequence of scroll-wheel events.
DilationClamped ==
  /\ timeDilation >= MinDilation
  /\ timeDilation <= MaxDilation
  /\ last.op = "none" => timeDilation = 1000

\* the wheel was turned up at a factor whose 1.1-fold is above 10.0, and the
\* factor is 10.0
DilationClampedWitness ==
  /\ last.op = "Wheel"
  /\ last.delta > 0
  /\ last.from < MaxDilation
  /\ last.from * 11 > MaxDilation * 10
  /\ timeDilation = MaxDilation

\* C24: every body of the Body Registry has a mass above zero, after any
\* sequence of scenario loads, added bodies and steps.
MassPositive ==
  \A i \in 1..Len(massiveObjects) : massiveObjects[i].mass > 0

\* a step has advanced a body of a scenario and a body that was added
MassPositiveWitness ==
  /\ last.op = "Update"
  /\ Len(massiveObjects) = 2
  /\ massiveObjects[1].mass = 30000
  /\ massiveObjects[2].mass = 1000
  /\ massiveObjects[2].velocity # F(0)

\* the step that has just been taken loaded a scenario: Initialize, a preset
\* key, or a frame in which the demo timer ran out
Loaded(l) == l.op = "Load" \/ (l.op \in {"Update", "Trap"} /\ l.reloaded)

\* C25: between two scenario loads the number of bodies never decreases (a
\* step keeps it, an added body increases it by one and keeps the others);
\* a scenario load replaces the registry wholesale: after it the bodies are
\* those of the new scenario and every active particle is one of its
\* particles.
BodyLifecycle ==
  [][/\ ~Loaded(last') => Len(massiveObjects') >= Len(massiveObjects)
     /\ last'.op \in {"Update", "Paused", "Trap"} /\ ~Loaded(last') =>
          Len(massiveObjects') = Len(massiveObjects)
     /\ last'.op = "Add" =>
          /\ Len(massiveObjects') = Len(massiveObjects) + 1
          /\ SubSeq(massiveObjects', 1, Len(massiveObjects)) = massiveObjects
     /\ last'.op = "Load" =>
          /\ massiveObjects' = PresetBodies(currentPreset')
          /\ \A i \in Active(particles') :
               particles'[i] = [PresetParticle(currentPreset', i) EXCEPT !.age = 0]
     /\ last'.op \in {"Update", "Trap"} /\ Loaded(last') =>
          /\ Len(massiveObjects') = Len(PresetBodies(currentPreset'))
          /\ \A i \in 1..Len(massiveObjects') :
               massiveObjects'[i].mass = PresetBodies(currentPreset')[i].mass
          /\ \A i \in Active(particles') :
               /\ particles'[i].lifetime = PresetParticle(currentPreset', i).lifetime
               /\ particles'[i].age \in {0, last'.dt}
    ]_vars

\* a frame of the demo loaded the scenario without bodies over a registry of
\* two bodies and a store with a particle that had aged
BodyLifecycleWitness ==
  /\ last.op = "Update"
  /\ last.reloaded
  /\ Len(last.objs) = 2
  /\ massiveObjects = <<>>
  /\ \E i \in Active(last.before) : last.before[i].age > 0
  /\ \E i \in Active(particles) : TRUE

\* C26: a step requested with a negative time delta is rejected with an
\* explicit error and leaves all bodies and particles as they were.
NegativeDeltaRejected ==
  last.op \in {"Update", "Paused", "Trap"} /\ last.dt < 0 =>
    /\ last.ret # Void
    /\ particles = last.before
    /\ massiveObjects = last.objs

\* C27: the force between any two bodies, and between any active particle
\* and any body, is a number, also when the two are at exactly the same
\* position; so no position and no velocity is ever undefined (NaN).
ForceWellDefined ==
  /\ \A i, j \in 1..Len(massiveObjects) :
       i # j =>
         ~IsNaN(CalculateGravitationalForce(massiveObjects[i].position,
                                            massiveObjects[j].position,
                                            massiveObjects[i].mass,
                                            massiveObjects[j].mass))
  /\ \A i \in Active(particles) : \A j \in 1..Len(massiveObjects) :
       ~IsNaN(CalculateGravitationalForce(particles[i].position,
                                          massiveObjects[j].position,
                                          particles[i].mass, massiveObjects[j].mass))
  /\ \A j \in 1..Len(massiveObjects) :
       ~IsNaN(massiveObjects[j].position) /\ ~IsNaN(massiveObjects[j].velocity)
  /\ \A i \in Active(particles) :
       ~IsNaN(particles[i].position) /\ ~IsNaN(particles[i].velocity)

\* C28: GetNumPendingTasks returns the number of queued tasks plus the
\* number of tasks that a worker has dequeued and not finished, as they are
\* at one moment; the in-flight part never exceeds the number of workers.
PendingCountsQueuedAndInFlight ==
  /\ activeTasks <= numThreads
  /\ pending # NoPending =>
       /\ pending.ret = pending.queued + pending.inflight
       /\ pending.inflight <= numThreads

\* the count was taken while every worker held a task, with one more queued
PendingCountsWitness ==
  /\ pending # NoPending
  /\ numThreads >= 2
  /\ pending.inflight = numThreads
  /\ pending.queued >= 1
  /\ \E w \in Workers : wstate[w] = "finishing"

\* C29: while the simulation is paused, Update changes no body, no particle
\* and no trail, however often it is called; Space toggles the paused flag,
\* and Update advances the simulation exactly when the flag is not set
\* (every active particle is aged by the time delta or deactivated).
PauseFreezes ==
  /\ [](last.op = "Paused" =>
          /\ paused
          /\ particles = last.before
          /\ massiveObjects = last.objs)
  /\ [][/\ last'.op = "Space" => paused' = ~paused
        /\ last'.op \in {"Update", "Paused", "Trap"} =>
             /\ paused' = paused
             /\ (last'.op = "Paused") = paused
        /\ last'.op = "Update" /\ last'.dt # 0 =>
             \A i \in Active(particles) :
               \/ ~particles'[i].active
               \/ particles'[i].age = particles[i].age + last'.dt
       ]_vars

\* Update was called on a paused simulation in which a body was moving and
\* had left a trail
PauseFreezesWitness ==
  /\ last.op = "Paused"
  /\ last.dt # 0
  /\ showTrails
  /\ \E i \in 1..Len(massiveObjects) :
       /\ ~IsNaN(massiveObjects[i].velocity)
       /\ massiveObjects[i].velocity # F(0)
       /\ massiveObjects[i].trail # NoTrail

\* C30: after every frame update that ran to its end, every slot that is
\* still active has an age below its lifetime.
ActiveMeansYoung ==
  last.op = "Update" =>
    \A i \in Active(particles) : particles[i].age < particles[i].lifetime

\* a frame left one particle active that has aged, and deactivated another
\* whose age reached its lifetime exactly
ActiveMeansYoungWitness ==
  /\ last.op = "Update"
  /\ \E i \in Active(particles) : particles[i].age > 0
  /\ \E j \in Active(last.before) :
       /\ ~particles[j].active
       /\ particles[j].age = particles[j].lifetime

ExecutedOnce(t) == IF t \in Enqueued THEN fut[t] \in Done /\ runs[t] = 1 ELSE FALSE

\* worker w is blocked in condition_.wait while the queue holds a task
BlockedWithWork(w) == IF w \in Workers THEN wstate[w] = "waiting" /\ tasks # <<>> ELSE FALSE

\* C32: in a pool with a worker whose tasks terminate, under fair scheduling
\* every enqueued task is eventually executed, every call of WaitForAll
\* eventually returns, and no worker stays blocked on the condition variable
\* while the queue is not empty.
Progress ==
  /\ \A t \in 1..MaxTasks : (t \in Enqueued) ~> ExecutedOnce(t)
  /\ (mpc \in {"wfa_check", "wfa_wait"}) ~> (mpc = "idle" /\ wfaRet.valid)
  /\ \A w \in 1..MaxThreads : BlockedWithWork(w) ~> ~BlockedWithWork(w)

\* Submit has released the mutex with its task in the queue and has not yet
\* notified, every worker is blocked in its wait, and the main thread is
\* blocked in WaitForAll
ProgressWitness ==
  /\ apc = "notify"
  /\ tasks # <<>>
  /\ numThreads >= 2
  /\ \A w \in Workers : wstate[w] = "waiting"
  /\ mpc = "wfa_wait"

\* C33: in one frame with scaled time delta dt, the velocity of every active
\* particle is advanced once by a * dt, with a the acceleration by the
\* bodies, and its position exactly once by the new velocity times dt.
OneIntegrationPerFrame ==
  Stepped /\ numThreads >= 1 /\ last.dt > 0 =>
    \A i \in Active(last.before) :
      particles[i].active =>
        /\ particles[i].velocity =
             FAdd(last.before[i].velocity,
                  FMul(FDiv(ForceOnParticle(last.before[i], massiveObjects, 1),
                            F(last.before[i].mass)),
                       F(last.dt)))
        /\ particles[i].position =
             FAdd(last.before[i].position, FMul(particles[i].velocity, F(last.dt)))

\* the slots the step that has just been taken changed from inactive to active
Reactivated == Inactive(particles) \cap Active(particles')

\* C34: a slot that is inactive stays inactive, and as it is, through every
\* step; it changes back to active only by an emission (EmitParticle,
\* EmitBurst, or the emissions of a scenario load), which keeps the buffer in
\* place and takes the inactive slots from the lowest index upwards.
SlotReuseOnlyByEmit ==
  [][/\ DOMAIN particles' = DOMAIN particles
     /\ last'.op \in {"Update", "StoreUpdate", "Paused", "Trap"} /\ ~last'.reloaded =>
          \A i \in Inactive(particles) : particles'[i] = particles[i]
     /\ last'.op \in {"EmitParticle", "EmitBurst"} =>
          /\ Cardinality(Reactivated) = Min2(last'.count, Cardinality(Inactive(particles)))
          /\ \A i \in Reactivated : \A j \in Inactive(particles) : j < i => j \in Reactivated
          /\ \A i \in DOMAIN particles : i \notin Reactivated => particles'[i] = particles[i]
     /\ Reactivated # {} => \/ last'.op \in {"EmitParticle", "EmitBurst", "Load"}
                            \/ last'.op \in {"Update", "Trap"} /\ last'.reloaded
    ]_vars

\* an emission has reused the lower of two inactive slots, one that had
\* died of age, and left the higher one, which had been culled, inactive
SlotReuseWitness ==
  /\ last.op \in {"EmitParticle", "EmitBurst"}
  /\ last.count = 1
  /\ \E i, j \in Inactive(last.before) :
       /\ i < j
       /\ last.before[i].age >= last.before[i].lifetime
       /\ Culled(last.before[j].position)
       /\ last.before[j].age < last.before[j].lifetime
       /\ particles[i].active
       /\ ~particles[j].active

\* the registry as the iteration for body i finds it: the bodies before i
\* as the step left them, the others as the step found them
FoundBy(i) ==
  [j \in 1..Len(last.objs) |-> IF j < i THEN massiveObjects[j] ELSE last.objs[j]]

\* the registry in the opposite order
Reversed(objs) == [k \in 1..Len(objs) |-> objs[Len(objs) + 1 - k]]

\* C35: a step advances the bodies one after another in index order: the
\* force on body i is computed from the advanced positions of the bodies
\* with a lower index and the not yet advanced positions of those with a
\* higher index.
InPlaceBodyOrder ==
  last.op \in {"Update", "Trap"} /\ ~last.reloaded =>
    /\ Len(massiveObjects) = Len(last.objs)
    /\ \A i \in 1..Len(massiveObjects) :
         LET acceleration == FDiv(ForceOnBody(FoundBy(i), i, 1), F(last.objs[i].mass))
             velocity == FAdd(last.objs[i].velocity, FMul(acceleration, F(last.dt)))
         IN /\ massiveObjects[i].velocity = velocity
            /\ massiveObjects[i].position =
                 FAdd(last.objs[i].position, FMul(velocity, F(last.dt)))

\* a step of two bodies whose result depends on their order: the same step
\* on the registry in the opposite order ends with other positions
InPlaceBodyOrderWitness ==
  /\ last.op = "Update"
  /\ ~last.reloaded
  /\ Len(last.objs) = 2
  /\ \A i \in 1..2 : ~IsNaN(massiveObjects[i].position)
  /\ BodyLoop(Reversed(last.objs), 1, last.dt, showTrails) # Reversed(massiveObjects)

InsideWaitForAll(ws, w) == ws[w] \in {"t_check", "t_wait"}

\* C37: WaitForAll called from inside a task of the pool never returns: the
\* worker that runs the task stays inside the call, the task is counted in
\* activeTasks for as long as it is there, so the predicate of the wait is
\* false whenever it is evaluated, and the task never completes.
NestedWaitNeverReturns ==
  [][/\ \A w \in Workers :
          InsideWaitForAll(wstate, w) =>
            /\ InsideWaitForAll(wstate', w)
            /\ wtask'[w] = wtask[w]
            /\ activeTasks >= 1
            /\ ~WaitPred
     /\ \A t \in 1..Len(fut') : tinfo'[t].kind = "waiter" => fut'[t] \notin Done
    ]_vars

\* a task waits inside WaitForAll while it is the only task left: the queue is
\* empty, a plain task has completed since, and the owner is blocked in its
\* own WaitForAll
NestedWaitWitness ==
  \E w \in Workers :
    /\ wstate[w] = "t_wait"
    /\ tasks = <<>>
    /\ activeTasks = 1
    /\ \E t \in TaskIds : t > wtask[w] /\ fut[t] = "ready"
    /\ mpc = "wfa_wait"

\* how many of the first n entries of ps are the particle x
CountOf(ps, n, x) == Cardinality({i \in 0..(n - 1) : ps[i] = x})

\* the particle p after one aging by the time delta of the last Update
AgedOnce(p) == [p EXCEPT !.age = @ + gpuLast.dt]

\* C38: GPUParticleSystem::Update ages every particle that was active at the
\* start of the call exactly once (the entries that were active are, as a
\* multiset, the same particles each aged by the time delta once, and the
\* other entries are untouched); afterwards activeParticles is at most
\* maxParticles and the first activeParticles entries are exactly the
\* previously active particles whose new age is below their lifetime.
SwapRemoveExact ==
  gpuLast.op = "Update" =>
    LET b == gpuLast.before
        n == gpuLast.n
        all == {AgedOnce(b[i]) : i \in 0..(n - 1)} \cup
               {gpuParticles[i] : i \in 0..(gpuMaxParticles - 1)}
    IN /\ activeParticles <= n
       /\ activeParticles <= gpuMaxParticles
       /\ \A x \in all :
            CountOf(gpuParticles, n, x) =
              Cardinality({i \in 0..(n - 1) : AgedOnce(b[i]) = x})
       /\ \A x \in all :
            CountOf(gpuParticles, activeParticles, x) =
              Cardinality({i \in 0..(n - 1) : AgedOnce(b[i]) = x /\ x.age < x.lifetime})
       /\ \A i \in n..(gpuMaxParticles - 1) : gpuParticles[i] = b[i]

\* an Update over three active particles found the first one dead, swapped the
\* last one in, found that one dead too, and kept the one in the middle
SwapRemoveWitness ==
  /\ gpuLast.op = "Update"
  /\ gpuLast.n = 3
  /\ gpuLast.dt > 0
  /\ AgedOnce(gpuLast.before[0]).age >= gpuLast.before[0].lifetime
  /\ AgedOnce(gpuLast.before[2]).age >= gpuLast.before[2].lifetime
  /\ AgedOnce(gpuLast.before[1]).age < gpuLast.before[1].lifetime
  /\ activeParticles = 1
  /\ gpuParticles[0] = AgedOnce(gpuLast.before[1])

\* ---- sanity of the model ----
TypeOK ==
  /\ numThreads \in 0..MaxThreads
  /\ stopping \in BOOLEAN
  /\ activeTasks \in 0..MaxThreads
  /\ \A w \in Workers : wstate[w] \in {"check", "waiting", "running", "finishing", "exited"}
  /\ \A t \in TaskIds : fut[t] \in {"pending", "ready", "failed", "rejected", "released"}
  /\ Len(runs) = Len(fut) /\ Len(tinfo) = Len(fut) /\ Len(seen) = Len(fut)

====
